---- MODULE Spec2Model ----
(***************************************************************************)
(* A model of the AIS ingestion pipeline of cns-target-plotter, MongoDB    *)
(* backend (src/backend/server.py).                                        *)
(*                                                                         *)
(* MongoDB documents are TLA+ records: a field that a document does not    *)
(* hold is a name outside the record's DOMAIN ($exists: false), which is   *)
(* different from a field that holds null.  Nullable values are options:   *)
(* None is Python's None / BSON null, Some(v) is the value v.              *)
(* Coordinates are whole degrees; timestamps are ticks of a clock that     *)
(* advances with every sentence read, so the ISO strings the code          *)
(* sorts by are ordered as the ticks are.                                  *)
(***************************************************************************)
EXTENDS Integers, Sequences, FiniteSets, TLC

VARIABLES
    sources,        \* db.sources : source_id -> document
    messages,       \* db.messages : set of documents
    positions,      \* db.positions : set of documents
    vessels,        \* db.vessels : mmsi -> document
    active_streams, \* the module global active_streams : source_id -> marker
    clock,          \* datetime.now(): the next timestamp
    next_id,        \* the next ObjectId
    next_source,    \* the next uuid4 of a source
    last_op,        \* the operation of the last step, its inputs and its response
    inserted,       \* history: source_id -> timestamps of the Messages inserted for it
    reported,       \* history: the position reports processed, with their timestamps
    v_lat, v_lon,   \* the validator's inputs (specification SpecValid)
    v_out,          \* the validator's result, None until it has run
    \* The SQLite backend (src/backend-sqlite/server.py)
    sq_sources,     \* table sources : source_id -> row
    sq_messages,    \* table messages : set of rows
    sq_positions,   \* table positions : set of rows
    sq_vessels,     \* table vessels : mmsi -> row
    sq_streams,     \* the module global active_streams : source_id -> {running, type}
    sq_input,       \* source_id -> what has reached the adapter's socket and is unread
    sq_pc,          \* source_id -> where the source's stream worker stands
    sq_clock,       \* datetime.now(), and the next AUTOINCREMENT id
    sq_last_op,     \* the operation of the last step, its inputs and its response
    sq_forwarded,   \* history: what the workers handed to process_ais_message
    sq_attributed,  \* history: the sentences stored, with source and timestamp
    sq_decoder,     \* what pyais.decode returns in this build: a mapping or an object
    \* ConnectionManager (the same class in both backends)
    active_connections, \* manager.active_connections : sequence of listeners
    ws_broken,      \* the listeners whose socket fails on send_json
    ws_event,       \* the number of the next event broadcast
    ws_attempted,   \* history: the (event, listener) pairs broadcast tried to send
    ws_received,    \* history: the (event, listener) pairs that were delivered
    \* The enrichment worker of the SQLite backend and its MarineISA client
    enrichment_queue,   \* the module global enrichment_queue : sequence of mmsi
    vessel_enrichment,  \* table vessel_enrichment : mmsi -> row
    client_cache,   \* marinesia_client.cache : cache key -> data
    en_current,     \* the mmsi the worker has taken from the queue, None when it waits
    en_log,         \* history: the worker's last outcome, every outcome so far,
                    \* the stations put on the queue and those the worker finished with
    \* Concurrent executions of the Mongo handlers
    tasks           \* execution of a handler -> its position in the handler and its locals

vars == <<sources, messages, positions, vessels, active_streams, clock,
          next_id, next_source, last_op, inserted, reported, v_lat, v_lon, v_out,
          sq_sources, sq_messages, sq_positions, sq_vessels, sq_streams, sq_input,
          sq_pc, sq_clock, sq_last_op, sq_forwarded, sq_attributed,
          sq_decoder,
          active_connections, ws_broken, ws_event, ws_attempted, ws_received,
          enrichment_queue, vessel_enrichment, client_cache, en_current, en_log,
          tasks>>

db_vars == <<sources, messages, positions, vessels, active_streams, clock,
             next_id, next_source, last_op, inserted, reported>>

valid_vars == <<v_lat, v_lon, v_out>>

sqlite_vars == <<sq_sources, sq_messages, sq_positions, sq_vessels, sq_streams,
                 sq_input, sq_pc, sq_clock, sq_last_op, sq_forwarded, sq_attributed,
                 sq_decoder>>

ws_vars == <<active_connections, ws_broken, ws_event, ws_attempted, ws_received>>

enrich_vars == <<enrichment_queue, vessel_enrichment, client_cache, en_current, en_log>>

ext_vars == <<ws_vars, enrich_vars, tasks>>

-----------------------------------------------------------------------------
(* Bounds of the model *)

\* Sentences the adapters read under Spec.
MaxClock == 3
\* Sources registered under SpecRegistry.
MaxSources == 2
\* Sentences the adapters read under SpecPause.
PauseMaxClock == 3
\* Sentences the adapter reads under SpecLimit.
LimitMaxClock == 15
\* Sentences the adapter reads under SpecPurge.
PurgeMaxClock == 11
SqMaxInput == 2
SqMaxSources == 1
\* Listeners of the connection manager, and events broadcast to them.
MaxListeners == 3
MaxEvents == 2
\* Stations waiting on the enrichment queue.
MaxQueue == 2
\* Stations put on the enrichment queue in one behaviour.
MaxEnqueued == 3
\* Sentences the two sources read under SpecAnchors.
AnchorMaxClock == 4
\* Sentences the SQLite source receives under SpecPositions.
SqPosMaxInput == 3
\* Lines of an uploaded file.
MaxLines == 2
\* Executions of process_ais_message that SpecRace starts.
MaxTasks == 2
\* Requests to POST /stream/start that SpecStartRace handles.
MaxRequests == 3
\* Sentences the adapter threads forward under SpecAdapters.
AdapterMaxClock == 3
\* Adapter threads started under SpecAdapters.
MaxThreads == 3

(* Program constants *)

\* DataSource.message_limit default, source_doc.get('message_limit', 500)
DefaultMessageLimit == 500
\* update_message_limit rejects a limit below 10
MinMessageLimit == 10
\* source.get('spoof_limit_km', 500.0)
DefaultSpoofLimitKm == 500

-----------------------------------------------------------------------------
(* Options and documents *)

None == <<>>
Some(v) == <<v>>

\* dict.get(field, default)
Get(doc, field, default) == IF field \in DOMAIN doc THEN doc[field] ELSE default

\* $set of one field
SetField(doc, field, v) ==
    [k \in (DOMAIN doc) \cup {field} |-> IF k = field THEN v ELSE doc[k]]

\* $set of the fields of upd
SetFields(doc, upd) ==
    [k \in (DOMAIN doc) \cup (DOMAIN upd) |-> IF k \in DOMAIN upd THEN upd[k] ELSE doc[k]]

\* Python truthiness of a nullable number: None and 0 are falsy.
Truthy(x) == x # None /\ x[1] # 0

Max(a, b) == IF a >= b THEN a ELSE b

\* F applied to the value of x: one statement's result handed to the next
Then(x, F(_)) == CHOOSE r \in {F(v) : v \in {x}} : TRUE

Abs(a) == IF a < 0 THEN -a ELSE a

-----------------------------------------------------------------------------
(* Pure helpers of server.py *)

\* str.strip() on a string given as a sequence of characters.
RECURSIVE LStrip(_)
LStrip(s) == IF s # <<>> /\ Head(s) = " " THEN LStrip(Tail(s)) ELSE s

RECURSIVE RStrip(_)
RStrip(s) ==
    IF s # <<>> /\ s[Len(s)] = " " THEN RStrip(SubSeq(s, 1, Len(s) - 1)) ELSE s

Strip(s) == RStrip(LStrip(s))

\* get_mmsi_country: the MID is the first three digits of the nine-digit MMSI.
get_mmsi_country(mmsi) ==
    LET mid == mmsi \div 1000000
    IN  CASE mid = 211 -> "Germany"
          [] mid = 366 -> "USA"
          [] OTHER -> "Unknown"

\* get_ship_type_text: the table, cut to the codes the model's sentences carry.
get_ship_type_text(ship_type) ==
    CASE ship_type = 0 -> "Not available"
      [] ship_type = 30 -> "Fishing"
      [] ship_type = 70 -> "Cargo"
      [] OTHER -> "Unknown"

is_valid_position_strict(lat, lon) ==
    IF lat = None \/ lon = None THEN FALSE
    ELSE IF lat[1] <= -90 \/ lat[1] >= 90 THEN FALSE
    ELSE IF lon[1] <= -180 \/ lon[1] >= 180 THEN FALSE
    ELSE TRUE

is_valid_position(lat, lon) ==
    IF lat = None \/ lon = None THEN FALSE
    ELSE IF lat[1] < -90 \/ lat[1] > 90 THEN FALSE
    ELSE IF lon[1] < -180 \/ lon[1] > 180 THEN FALSE
    ELSE TRUE

\* The great-circle distance of get_active_vessels, in km, as a fixed function
\* of the two coordinate pairs: 111 km per degree along each axis.
distance_km(lat1, lon1, lat2, lon2) == 111 * (Abs(lat2 - lat1) + Abs(lon2 - lon1))

-----------------------------------------------------------------------------
(* Sentences.  A sentence is the raw line together with what pyais.decode  *)
(* makes of it: decode is "ok" (a message), "none" (a falsy result) or     *)
(* "raise" (an exception); frame is the talker's sentence type, which the  *)
(* code reads from raw_message[:10]; a field the decoded dict does not     *)
(* hold is None.                                                           *)

Sentence(dec, frame, mmsi, msg_type, lat, lon, repeat, shipname, callsign, shiptype) ==
    [decode |-> dec, frame |-> frame, mmsi |-> mmsi, msg_type |-> msg_type,
     lat |-> lat, lon |-> lon, repeat |-> repeat,
     shipname |-> shipname, callsign |-> callsign, shiptype |-> shiptype]

PositionSentence(frame, mmsi, msg_type, lat, lon, repeat) ==
    Sentence("ok", frame, mmsi, msg_type, Some(lat), Some(lon), repeat, None, None, None)

StaticSentence(mmsi, shipname, callsign, shiptype) ==
    Sentence("ok", "VDM", mmsi, 5, None, None, 0, Some(shipname), Some(callsign), Some(shiptype))

OtherSentence(dec, mmsi, msg_type) ==
    Sentence(dec, "VDM", mmsi, msg_type, None, None, 0, None, None, None)

-----------------------------------------------------------------------------
(* process_ais_message, on a database d = [sources, messages, positions,   *)
(* vessels]                                                                *)

Database == [sources |-> sources, messages |-> messages,
             positions |-> positions, vessels |-> vessels]

SourceIsPaused_NoCheck(srcs, sid) == FALSE

\* lines 352-356: the source exists and is paused
SourceIsPaused(srcs, sid) ==
    sid \in DOMAIN srcs /\ Get(srcs[sid], "is_paused", FALSE)

MessageDoc(s, sid, ts, id) ==
    [_id |-> id, mmsi |-> s.mmsi, timestamp |-> ts, message_type |-> s.msg_type,
     raw |-> s, source_id |-> sid, is_vdo |-> (s.frame = "VDO"),
     repeat_indicator |-> s.repeat]

messages_to_delete_OffByOne(message_count, message_limit) ==
    message_count - message_limit - 1

messages_to_delete(message_count, message_limit) == message_count - message_limit

\* find(...).sort('timestamp', 1).limit(n): the n documents with the least
\* timestamps (the _id settles a tie, which the clock never produces).
OldestMessages(msgs, n) ==
    {m \in msgs :
        Cardinality({x \in msgs : \/ x.timestamp < m.timestamp
                                  \/ x.timestamp = m.timestamp /\ x._id < m._id}) < n}

\* lines 396-422: purge old messages if the source's limit is exceeded
PurgeOldMessages(d, sid) ==
    IF sid \notin DOMAIN d.sources THEN d
    ELSE
      LET message_limit == Get(d.sources[sid], "message_limit", DefaultMessageLimit)
          mine == {m \in d.messages : m.source_id = sid}
          message_count == Cardinality(mine)
      IN  IF message_count > message_limit
          THEN
            LET old_messages ==
                    OldestMessages(mine, messages_to_delete(message_count, message_limit))
            IN  IF old_messages = {} THEN d
                ELSE
                  LET position_ids == {m.mmsi : m \in old_messages}
                      last_ts == CHOOSE t \in {m.timestamp : m \in old_messages} :
                                    \A m \in old_messages : m.timestamp <= t
                  IN  [d EXCEPT
                         !.messages = @ \ old_messages,
                         !.positions = {p \in @ : ~ (/\ p.source_id = sid
                                                     /\ p.mmsi \in position_ids
                                                     /\ p.timestamp <= last_ts)}]
          ELSE d

PositionDoc_DisplayAsOriginal(s, sid, ts, id, valid, display_lat, display_lon) ==
    [_id |-> id, mmsi |-> s.mmsi, timestamp |-> ts,
     lat |-> display_lat, lon |-> display_lon,
     display_lat |-> display_lat, display_lon |-> display_lon,
     position_valid |-> valid, source_id |-> sid,
     is_vdo |-> (s.frame = "VDO"), repeat_indicator |-> s.repeat]

get_last_valid_position_LatestRaw(poss, mmsi) ==
    LET found == {p \in poss : p.mmsi = mmsi}
    IN  IF found = {} THEN None
        ELSE LET last == CHOOSE p \in found :
                            \A q \in found : q.timestamp <= p.timestamp
             IN  Some([lat |-> last.lat, lon |-> last.lon])

\* get_last_valid_position: None, or the display coordinates of the latest
\* position of the station with position_valid = True
get_last_valid_position(poss, mmsi) ==
    LET found == {p \in poss : p.mmsi = mmsi /\ p.position_valid = TRUE}
    IN  IF found = {} THEN None
        ELSE LET last_valid == CHOOSE p \in found :
                                  \A q \in found : q.timestamp <= p.timestamp
             IN  Some([lat |-> Get(last_valid, "display_lat", None),
                       lon |-> Get(last_valid, "display_lon", None)])

\* backfill_invalid_positions: the query asks for invalid positions of the
\* station that do not hold the field display_lat ($exists: False)
backfill_invalid_positions(poss, mmsi, valid_lat, valid_lon) ==
    {IF /\ p.mmsi = mmsi
        /\ p.position_valid = FALSE
        /\ "display_lat" \notin DOMAIN p
     THEN SetFields(p, [display_lat |-> valid_lat, display_lon |-> valid_lon,
                        backfilled |-> TRUE])
     ELSE p : p \in poss}

\* update_one({'mmsi': mmsi}, {'$set': upd, '$addToSet': {'source_ids': sid}}, upsert=True)
UpsertVessel(vs, mmsi, upd, sid) ==
    LET old == IF mmsi \in DOMAIN vs THEN vs[mmsi] ELSE [mmsi |-> mmsi]
        new == SetField(SetFields(old, upd), "source_ids",
                        Get(old, "source_ids", {}) \cup {sid})
    IN  [m \in (DOMAIN vs) \cup {mmsi} |-> IF m = mmsi THEN new ELSE vs[m]]

PositionTypes == {1, 2, 3, 4, 18, 21}

\* position_doc of the four position handlers (the fields the handlers share,
\* and the aid-to-navigation flag of type 21)
PositionDoc(s, sid, ts, id, valid, display_lat, display_lon) ==
    LET doc == [_id |-> id, mmsi |-> s.mmsi, timestamp |-> ts,
                lat |-> s.lat, lon |-> s.lon,
                display_lat |-> display_lat, display_lon |-> display_lon,
                position_valid |-> valid, source_id |-> sid,
                is_vdo |-> (s.frame = "VDO"), repeat_indicator |-> s.repeat]
    IN  IF s.msg_type = 21 THEN SetFields(doc, [is_aton |-> TRUE, aton_name |-> <<>>])
        ELSE doc

\* Types 1-3 (425-507), 4 (509-595), 18 (630-704) and 21 (735-822)
HandlePosition(d, s, sid, ts, id) ==
    LET position_is_valid == is_valid_position(s.lat, s.lon)
        last_valid == get_last_valid_position(d.positions, s.mmsi)
        display_lat == IF position_is_valid THEN s.lat
                       ELSE IF last_valid # None THEN last_valid[1].lat ELSE None
        display_lon == IF position_is_valid THEN s.lon
                       ELSE IF last_valid # None THEN last_valid[1].lon ELSE None
        position_doc == PositionDoc(s, sid, ts, id, position_is_valid,
                                    display_lat, display_lon)
        with_doc == d.positions \cup {position_doc}
        poss == IF position_is_valid
                THEN backfill_invalid_positions(with_doc, s.mmsi, display_lat, display_lon)
                ELSE with_doc
        pos_count == Cardinality({p \in poss : p.mmsi = s.mmsi})
        meta == [last_seen |-> ts, country |-> get_mmsi_country(s.mmsi)]
        counted == IF s.msg_type = 18 THEN meta
                   ELSE SetField(meta, "position_count", pos_count)
        flagged == CASE s.msg_type = 4 -> SetField(counted, "is_base_station", TRUE)
                     [] s.msg_type = 21 ->
                          SetFields(counted, [is_aton |-> TRUE,
                                              name |-> position_doc.aton_name])
                     [] OTHER -> counted
        upd == IF display_lat # None /\ display_lon # None
               THEN SetField(flagged, "last_position", position_doc)
               ELSE flagged
    IN  [d EXCEPT !.positions = poss,
                  !.vessels = UpsertVessel(@, s.mmsi, upd, sid)]

\* decoded.get(key, '').strip()
StrippedOrEmpty(field) == IF field = None THEN <<>> ELSE Strip(field[1])

StaticVesselDoc_RawName(s, ts) ==
    [mmsi |-> s.mmsi,
     name |-> IF s.shipname = None THEN <<>> ELSE s.shipname[1],
     callsign |-> StrippedOrEmpty(s.callsign),
     ship_type |-> s.shiptype,
     ship_type_text |-> get_ship_type_text(IF s.shiptype = None THEN 0 ELSE s.shiptype[1]),
     last_seen |-> ts,
     country |-> get_mmsi_country(s.mmsi)]

\* lines 598-613: vessel_doc of a type 5 message
StaticVesselDoc(s, ts) ==
    [mmsi |-> s.mmsi,
     name |-> StrippedOrEmpty(s.shipname),
     callsign |-> StrippedOrEmpty(s.callsign),
     ship_type |-> s.shiptype,
     ship_type_text |-> get_ship_type_text(IF s.shiptype = None THEN 0 ELSE s.shiptype[1]),
     last_seen |-> ts,
     country |-> get_mmsi_country(s.mmsi)]

\* lines 707-719: vessel_doc of a type 24 message, which holds only the
\* fields its part carries
StaticReportDoc(s, ts) ==
    LET base == [mmsi |-> s.mmsi, last_seen |-> ts, country |-> get_mmsi_country(s.mmsi)]
        named == IF s.shipname # None THEN SetField(base, "name", Strip(s.shipname[1]))
                 ELSE base
        called == IF s.callsign # None
                  THEN SetField(named, "callsign", Strip(s.callsign[1])) ELSE named
    IN  IF s.shiptype # None
        THEN SetFields(called, [ship_type |-> s.shiptype,
                                ship_type_text |-> get_ship_type_text(s.shiptype[1])])
        ELSE called

\* lines 824-836: update source statistics
UpdateSourceStatistics(d, sid, ts) ==
    IF sid \notin DOMAIN d.sources THEN d
    ELSE
      LET target_count ==
              Cardinality({m \in DOMAIN d.vessels :
                              sid \in Get(d.vessels[m], "source_ids", {})})
          src == d.sources[sid]
      IN  [d EXCEPT !.sources[sid] =
              SetFields(src, [message_count |-> Get(src, "message_count", 0) + 1,
                              target_count |-> target_count,
                              last_message |-> ts])]

\* lines 425-822: the handler of the message's type, none for the other types
Dispatch(d, s, sid, ts, id) ==
    CASE s.msg_type \in PositionTypes -> HandlePosition(d, s, sid, ts, id)
      [] s.msg_type = 5 ->
           [d EXCEPT !.vessels = UpsertVessel(@, s.mmsi, StaticVesselDoc(s, ts), sid)]
      [] s.msg_type = 24 ->
           [d EXCEPT !.vessels = UpsertVessel(@, s.mmsi, StaticReportDoc(s, ts), sid)]
      [] OTHER -> d

\* process_ais_message(raw_message, source, source_id) at time ts; the message
\* gets ObjectId id and its position id + 1
process_ais_message(d, s, sid, ts, id) ==
    IF SourceIsPaused(d.sources, sid) THEN d
    ELSE IF s.decode = "raise" THEN d
    ELSE IF s.decode = "none"
    THEN IF sid \in DOMAIN d.sources
         THEN [d EXCEPT !.sources[sid] =
                 SetField(@, "fragment_count", Get(@, "fragment_count", 0) + 1)]
         ELSE d
    ELSE
      Then([d EXCEPT !.messages = @ \cup {MessageDoc(s, sid, ts, id)}],
           LAMBDA stored :
      Then(PurgeOldMessages(stored, sid),
           LAMBDA purged :
      Then(Dispatch(purged, s, sid, ts, id + 1),
           LAMBDA handled : UpdateSourceStatistics(handled, sid, ts))))

-----------------------------------------------------------------------------
(* The operations.  Every operation records itself in last_op: its name,   *)
(* the source it was given, its argument and the HTTP status it answers    *)
(* with.                                                                   *)

Op(name, sid, arg, code) == [op |-> name, sid |-> sid, arg |-> arg, code |-> code]

IsStreamType(t) == t \in {"tcp", "udp", "serial"}

TcpUdpConfig(stream_type, host, port) ==
    [stream_type |-> stream_type, host |-> Some(host), port |-> Some(port),
     serial_port |-> None]

SerialConfig(serial_port) ==
    [stream_type |-> "serial", host |-> None, port |-> None,
     serial_port |-> Some(serial_port)]

DuplicateSources_ActiveOnly(srcs, config) ==
    {sid \in DOMAIN srcs :
        /\ srcs[sid].status = "active"
        /\ srcs[sid].source_type = config.stream_type
        /\ IF config.stream_type \in {"tcp", "udp"}
           THEN /\ srcs[sid].config.host = config.host
                /\ srcs[sid].config.port = config.port
           ELSE srcs[sid].config.serial_port = config.serial_port}

\* lines 917-928: the sources that duplicate_query matches
DuplicateSources(srcs, config) ==
    {sid \in DOMAIN srcs :
        /\ srcs[sid].source_type = config.stream_type
        /\ IF config.stream_type \in {"tcp", "udp"}
           THEN /\ srcs[sid].config.host = config.host
                /\ srcs[sid].config.port = config.port
           ELSE srcs[sid].config.serial_port = config.serial_port}

\* lines 945-953: source_doc of a new stream source
StreamSourceDoc(sid, config, ts) ==
    [source_id |-> sid, source_type |-> config.stream_type, config |-> config,
     status |-> "active", created_at |-> ts, message_count |-> 0]

\* POST /stream/start; max_sources bounds the sources a run registers
start_stream(config, max_sources) ==
    /\ IF DuplicateSources(sources, config) # {}
       THEN /\ last_op' = Op("start_stream", 0, config, 409)
            /\ UNCHANGED <<sources, active_streams, next_source, inserted, reported>>
       ELSE /\ next_source <= max_sources
            /\ sources' = [sid \in (DOMAIN sources) \cup {next_source} |->
                              IF sid = next_source
                              THEN StreamSourceDoc(next_source, config, clock)
                              ELSE sources[sid]]
            /\ active_streams' = [sid \in (DOMAIN active_streams) \cup {next_source} |->
                                     IF sid = next_source THEN config.stream_type
                                     ELSE active_streams[sid]]
            /\ inserted' = [sid \in (DOMAIN inserted) \cup {next_source} |->
                               IF sid = next_source THEN {} ELSE inserted[sid]]
            /\ next_source' = next_source + 1
            /\ last_op' = Op("start_stream", next_source, config, 200)
            /\ UNCHANGED reported
    /\ UNCHANGED <<messages, positions, vessels, clock, next_id, valid_vars, sqlite_vars, ext_vars>>

\* POST /sources/{source_id}/pause
pause_source(sid) ==
    /\ IF sid \notin DOMAIN sources
       THEN /\ last_op' = Op("pause_source", sid, None, 404)
            /\ UNCHANGED sources
       ELSE /\ sources' = [sources EXCEPT ![sid] = SetField(@, "is_paused", TRUE)]
            /\ last_op' = Op("pause_source", sid, None, 200)
    /\ UNCHANGED <<messages, positions, vessels, active_streams, clock, next_id,
                   next_source, inserted, reported, valid_vars, sqlite_vars, ext_vars>>

\* POST /sources/{source_id}/resume
resume_source(sid) ==
    /\ IF sid \notin DOMAIN sources
       THEN /\ last_op' = Op("resume_source", sid, None, 404)
            /\ UNCHANGED sources
       ELSE /\ sources' = [sources EXCEPT ![sid] = SetField(@, "is_paused", FALSE)]
            /\ last_op' = Op("resume_source", sid, None, 200)
    /\ UNCHANGED <<messages, positions, vessels, active_streams, clock, next_id,
                   next_source, inserted, reported, valid_vars, sqlite_vars, ext_vars>>

\* del active_streams[sid]
WithoutStream(streams, sid) == [x \in (DOMAIN streams) \ {sid} |-> streams[x]]

\* active_streams[sid] = True: the marker of an adapter that toggle_source
\* restarted (start_stream stores the stream type instead)
WithRestartedStream(streams, sid) ==
    [x \in (DOMAIN streams) \cup {sid} |-> IF x = sid THEN "restarted" ELSE streams[x]]

\* PATCH /sources/{source_id}/toggle
toggle_source(sid) ==
    /\ IF sid \notin DOMAIN sources
       THEN /\ last_op' = Op("toggle_source", sid, None, 404)
            /\ UNCHANGED <<sources, active_streams>>
       ELSE LET new_status == IF sources[sid].status = "active" THEN "inactive"
                              ELSE "active"
            IN  /\ active_streams' =
                      IF new_status = "inactive" /\ sid \in DOMAIN active_streams
                      THEN WithoutStream(active_streams, sid)
                      ELSE IF new_status = "active"
                              /\ IsStreamType(sources[sid].source_type)
                      THEN WithRestartedStream(active_streams, sid)
                      ELSE active_streams
                /\ sources' = [sources EXCEPT ![sid] = SetField(@, "status", new_status)]
                /\ last_op' = Op("toggle_source", sid, new_status, 200)
    /\ UNCHANGED <<messages, positions, vessels, clock, next_id, next_source,
                   inserted, reported, valid_vars, sqlite_vars, ext_vars>>

\* PATCH /sources/{source_id}/message-limit
update_message_limit(sid, message_limit) ==
    /\ IF message_limit < MinMessageLimit
       THEN /\ last_op' = Op("update_message_limit", sid, message_limit, 400)
            /\ UNCHANGED sources
       ELSE IF sid \notin DOMAIN sources
       THEN /\ last_op' = Op("update_message_limit", sid, message_limit, 404)
            /\ UNCHANGED sources
       ELSE /\ sources' = [sources EXCEPT ![sid] =
                              SetField(@, "message_limit", message_limit)]
            /\ last_op' = Op("update_message_limit", sid, message_limit, 200)
    /\ UNCHANGED <<messages, positions, vessels, active_streams, clock, next_id,
                   next_source, inserted, reported, valid_vars, sqlite_vars, ext_vars>>

\* The sentence passes the pause check and decodes: the code goes on to store it.
IsProcessed(srcs, sid, s) == ~ SourceIsPaused(srcs, sid) /\ s.decode = "ok"

\* lines 959-967: after process_ais_message, the adapters that start_stream
\* starts count the sentence once more
process_stream_message(d, s, sid, ts, id) ==
    Then(process_ais_message(d, s, sid, ts, id),
         LAMBDA done :
            IF sid \in DOMAIN done.sources
            THEN [done EXCEPT !.sources[sid] =
                     SetFields(@, [message_count |-> Get(@, "message_count", 0) + 1,
                                   last_message |-> ts])]
            ELSE done)

\* One turn of an adapter's loop (tcp_stream_handler, udp_stream_handler,
\* serial_stream_handler, and restart_tcp, restart_udp, restart_serial of
\* toggle_source): the adapter of a source in active_streams reads sentence s
\* and has it processed.
Deliver(sid, s) ==
    /\ sid \in DOMAIN active_streams
    /\ \E d \in {IF active_streams[sid] = "restarted"
                 THEN process_ais_message(Database, s, sid, clock, next_id)
                 ELSE process_stream_message(Database, s, sid, clock, next_id)} :
           /\ sources' = d.sources
           /\ messages' = d.messages
           /\ positions' = d.positions
           /\ vessels' = d.vessels
    /\ clock' = clock + 1
    /\ next_id' = IF IsProcessed(sources, sid, s) THEN next_id + 2 ELSE next_id
    /\ inserted' = IF IsProcessed(sources, sid, s) /\ sid \in DOMAIN inserted
                   THEN [inserted EXCEPT ![sid] = @ \cup {clock}]
                   ELSE inserted
    /\ reported' = IF IsProcessed(sources, sid, s) /\ s.msg_type \in PositionTypes
                   THEN reported \cup {[mmsi |-> s.mmsi, lat |-> s.lat, lon |-> s.lon,
                                        source_id |-> sid, timestamp |-> clock]}
                   ELSE reported
    /\ last_op' = Op("deliver", sid, s, 200)
    /\ UNCHANGED <<active_streams, next_source, valid_vars, sqlite_vars, ext_vars>>

-----------------------------------------------------------------------------
(* The queries, as functions of the database *)

\* GET /vessel/{mmsi}: None for the 404, else the vessel with the latest
\* position of the station as last_position and the station's track
get_vessel(mmsi) ==
    IF mmsi \notin DOMAIN vessels THEN None
    ELSE
      LET track == {p \in positions : p.mmsi = mmsi}
          with_track == SetField(vessels[mmsi], "track", track)
      IN  IF track = {} THEN Some(with_track)
          ELSE LET latest_position == CHOOSE p \in track :
                                         \A q \in track : q.timestamp <= p.timestamp
               IN  Some(SetField(with_track, "last_position", latest_position))

\* find(query).sort('last_seen', -1).limit(n)
MostRecentVessels(ms, n) ==
    {m \in ms : Cardinality({x \in ms : vessels[x].last_seen > vessels[m].last_seen}) < n}

\* lines 1393-1421: the vessels of the active sources, each source's cut to
\* its target_limit
ActiveVessels(active_sources) ==
    LET OfSource(sid) ==
            LET mine == {m \in DOMAIN vessels : sid \in Get(vessels[m], "source_ids", {})}
                target_limit == Get(sources[sid], "target_limit", 0)
            IN  IF target_limit > 0 THEN MostRecentVessels(mine, target_limit) ELSE mine
    IN  {vessels[m] : m \in UNION {OfSource(sid) : sid \in active_sources}}

\* {'$exists': True, '$ne': None}
ExistsNotNull(doc, field) == field \in DOMAIN doc /\ doc[field] # None

VdmPositions_AnySource(sid) ==
    {p \in positions :
        /\ p.is_vdo # TRUE
        /\ p.repeat_indicator <= 0
        /\ ExistsNotNull(p, "display_lat")
        /\ ExistsNotNull(p, "display_lon")}

\* lines 1454-1460: the positions the spoof radius is taken over
VdmPositions(sid) ==
    {p \in positions :
        /\ p.is_vdo # TRUE
        /\ p.source_id = sid
        /\ p.repeat_indicator <= 0
        /\ ExistsNotNull(p, "display_lat")
        /\ ExistsNotNull(p, "display_lon")}

\* lines 1462-1485: max_distance_within_limit
MaxDistanceWithinLimit(sid, vdo_lat, vdo_lon, spoof_limit_km) ==
    LET within ==
            {distance_km(vdo_lat[1], vdo_lon[1], p.display_lat[1], p.display_lon[1]) :
                p \in {q \in VdmPositions(sid) :
                          /\ Truthy(q.display_lat)
                          /\ Truthy(q.display_lon)
                          /\ q.repeat_indicator <= 0
                          /\ distance_km(vdo_lat[1], vdo_lon[1],
                                         q.display_lat[1], q.display_lon[1])
                               <= spoof_limit_km}}
    IN  IF within = {} THEN 0
        ELSE CHOOSE x \in within : \A y \in within : y <= x

\* lines 1432-1440: the anchors of a source
VdoPositions(sid) ==
    {p \in positions :
        /\ (Get(p, "is_base_station", FALSE) = TRUE \/ p.is_vdo = TRUE)
        /\ p.source_id = sid
        /\ ExistsNotNull(p, "display_lat")
        /\ ExistsNotNull(p, "display_lon")}

\* lines 1426-1500: vdo_data_list
VdoData(active_sources) ==
    UNION {
      LET spoof_limit_km == Get(sources[sid], "spoof_limit_km", DefaultSpoofLimitKm)
      IN  {[mmsi |-> p.mmsi, lat |-> p.display_lat, lon |-> p.display_lon,
            radius_km |-> MaxDistanceWithinLimit(sid, p.display_lat, p.display_lon,
                                                 spoof_limit_km),
            spoof_limit_km |-> spoof_limit_km, source_id |-> sid,
            timestamp |-> p.timestamp, is_own |-> Get(p, "is_vdo", FALSE)] :
              p \in {q \in VdoPositions(sid) :
                        Truthy(q.display_lat) /\ Truthy(q.display_lon)}}
      : sid \in active_sources}

\* GET /vessels/active
get_active_vessels ==
    LET active_sources == {sid \in DOMAIN sources : sources[sid].status = "active"}
    IN  IF active_sources = {} THEN [vessels |-> {}, total |-> 0, vdo_data |-> {}]
        ELSE LET listed == ActiveVessels(active_sources)
             IN  [vessels |-> listed, total |-> Cardinality(listed),
                  vdo_data |-> VdoData(active_sources)]

-----------------------------------------------------------------------------
(* Inputs *)

\* MMSIs: the MID of the mid_countries table times 10^6, plus a serial number
Station1 == 211 * 1000000 + 1
Station2 == 366 * 1000000 + 2
Stations == {Station1, Station2}

StreamConfigs ==
    {TcpUdpConfig("tcp", "10.0.0.1", 4001), TcpUdpConfig("tcp", "10.0.0.1", 4002),
     TcpUdpConfig("udp", "10.0.0.1", 4001), SerialConfig("/dev/ttyUSB0")}

ValidReport == PositionSentence("VDM", Station1, 1, 10, 20, 0)
InvalidReport == PositionSentence("VDM", Station1, 1, 91, 181, 0)
ZeroLatReport == PositionSentence("VDM", Station1, 3, 0, 20, 0)
ClassBReport == PositionSentence("VDM", Station1, 18, 10, 20, 0)
OwnBaseStation == PositionSentence("VDO", Station2, 4, 1, 20, 0)
AtonReport == PositionSentence("VDM", Station2, 21, 91, 181, 0)
RepeatedReport == PositionSentence("VDM", Station2, 2, 1, 21, 1)
StaticData == StaticSentence(Station1, <<" ", "A", "B", " ">>, <<"C", " ">>, 70)
Fragment == OtherSentence("none", Station1, 0)
Undecodable == OtherSentence("raise", Station1, 0)
BinaryMessage == OtherSentence("ok", Station2, 8)
InvalidBaseStation == PositionSentence("VDM", Station2, 4, 91, 181, 0)
InvalidAton == PositionSentence("VDM", Station1, 21, 91, 181, 0)

\* The sentences of Spec
IngestCorpus ==
    {ValidReport, InvalidReport, ZeroLatReport, ClassBReport, OwnBaseStation,
     AtonReport, RepeatedReport, StaticData, Fragment, Undecodable, BinaryMessage}

\* The sentences of SpecPause and of SpecLimit
SmallCorpus == {ValidReport, Fragment}

LatInputs == {None} \cup {Some(x) : x \in {-91, -90, -89, 0, 89, 90, 91}}
LonInputs == {None} \cup {Some(x) : x \in {-181, -180, -179, 0, 179, 180, 181}}

-----------------------------------------------------------------------------------------------------------------------------------------------------
(* Initial states *)

\* No listener is connected and MarineISA is idle
ServicesIdle ==
    /\ active_connections = <<>>
    /\ ws_broken = {}
    /\ ws_event = 1
    /\ ws_attempted = {}
    /\ ws_received = {}
    /\ enrichment_queue = <<>>
    /\ vessel_enrichment = <<>>
    /\ client_cache = <<>>
    /\ en_current = None
    /\ en_log = [last |-> None, seen |-> {}, enqueued |-> <<>>, handled |-> <<>>]

\* ServicesIdle, and no handler is under way: the state in which the
\* specifications of the stores run
ExtIdle == ServicesIdle /\ tasks = <<>>

ValidatorIdle == v_lat = None /\ v_lon = None /\ v_out = None

\* The SQLite backend after init_db: empty tables, no stream
SqliteNoData ==
    /\ sq_sources = <<>>
    /\ sq_messages = {}
    /\ sq_positions = {}
    /\ sq_vessels = <<>>
    /\ sq_streams = <<>>
    /\ sq_input = <<>>
    /\ sq_pc = <<>>
    /\ sq_clock = 1
    /\ sq_last_op = Op("init", 0, None, 200)
    /\ sq_forwarded = {}
    /\ sq_attributed = {}

SqliteEmpty == SqliteNoData /\ sq_decoder = "object"

\* The database after construction
EmptyDb ==
    /\ sources = <<>>
    /\ messages = {}
    /\ positions = {}
    /\ vessels = <<>>
    /\ active_streams = <<>>
    /\ clock = 1
    /\ next_id = 1
    /\ next_source = 1
    /\ inserted = <<>>
    /\ reported = {}
    /\ last_op = Op("init", 0, None, 200)

TcpSource == TcpUdpConfig("tcp", "10.0.0.1", 4001)
UdpSource == TcpUdpConfig("udp", "10.0.0.1", 4001)

\* The empty database after start_stream(TcpSource) and start_stream(UdpSource):
\* two active sources, each with its adapter running
RegisteredDb ==
    /\ sources = <<StreamSourceDoc(1, TcpSource, 1), StreamSourceDoc(2, UdpSource, 1)>>
    /\ messages = {}
    /\ positions = {}
    /\ vessels = <<>>
    /\ active_streams = <<"tcp", "udp">>
    /\ clock = 1
    /\ next_id = 1
    /\ next_source = 3
    /\ inserted = <<{}, {}>>
    /\ reported = {}
    /\ last_op = Op("start_stream", 2, UdpSource, 200)

-----------------------------------------------------------------------------
(* Spec: ingestion.  The adapters of two registered sources read sentences  *)
(* and process_ais_message stores them.                                     *)

Init == RegisteredDb /\ ValidatorIdle /\ SqliteEmpty /\ ExtIdle

Next ==
    \E sid \in DOMAIN active_streams, s \in IngestCorpus :
        clock <= MaxClock /\ Deliver(sid, s)

Spec == Init /\ [][Next]_vars

-----------------------------------------------------------------------------
(* SpecRegistry: the source registry, from the empty database *)

RegistryInit == EmptyDb /\ ValidatorIdle /\ SqliteEmpty /\ ExtIdle

RegistryNext ==
    \/ \E config \in StreamConfigs : start_stream(config, MaxSources)
    \/ \E sid \in 1..MaxSources : toggle_source(sid)
    \/ \E sid \in 1..MaxSources, message_limit \in {MinMessageLimit - 1, MinMessageLimit} :
          update_message_limit(sid, message_limit)

SpecRegistry == RegistryInit /\ [][RegistryNext]_vars

-----------------------------------------------------------------------------
(* SpecPause: pausing and resuming the two registered sources while their   *)
(* adapters read sentences                                                  *)

PauseNext ==
    \/ \E sid \in DOMAIN sources : pause_source(sid)
    \/ \E sid \in DOMAIN sources : resume_source(sid)
    \/ \E sid \in DOMAIN active_streams, s \in SmallCorpus :
          clock <= PauseMaxClock /\ Deliver(sid, s)

SpecPause == Init /\ [][PauseNext]_vars

-----------------------------------------------------------------------------
(* SpecLimit: one source whose message_limit has been set to the least      *)
(* value update_message_limit accepts, and its adapter reading sentences    *)

\* The empty database after start_stream(TcpSource) and
\* update_message_limit(1, MinMessageLimit)
LimitedDb ==
    /\ sources = <<SetField(StreamSourceDoc(1, TcpSource, 1), "message_limit",
                            MinMessageLimit)>>
    /\ messages = {}
    /\ positions = {}
    /\ vessels = <<>>
    /\ active_streams = <<"tcp">>
    /\ clock = 1
    /\ next_id = 1
    /\ next_source = 2
    /\ inserted = <<{}>>
    /\ reported = {}
    /\ last_op = Op("update_message_limit", 1, MinMessageLimit, 200)

LimitInit == LimitedDb /\ ValidatorIdle /\ SqliteEmpty /\ ExtIdle

LimitNext ==
    \E sid \in DOMAIN active_streams, s \in SmallCorpus :
        clock <= LimitMaxClock /\ Deliver(sid, s)

SpecLimit == LimitInit /\ [][LimitNext]_vars

-----------------------------------------------------------------------------
(* SpecValid: is_valid_position on its own, over the range boundaries *)

ValidInit ==
    /\ EmptyDb
    /\ SqliteEmpty
    /\ ExtIdle
    /\ v_lat \in LatInputs
    /\ v_lon \in LonInputs
    /\ v_out = None

Validate ==
    /\ v_out = None
    /\ v_out' = Some(is_valid_position(v_lat, v_lon))
    /\ UNCHANGED <<v_lat, v_lon, db_vars, sqlite_vars, ext_vars>>

SpecValid == ValidInit /\ [][Validate]_vars

-----------------------------------------------------------------------------
(* What the claims speak of *)

\* Both coordinates are given and lie in [-90, 90] x [-180, 180].
InRange(lat, lon) ==
    /\ lat # None
    /\ lon # None
    /\ lat[1] \in -90..90
    /\ lon[1] \in -180..180

PositionsOf(mmsi) == {p \in positions : p.mmsi = mmsi}

MessagesOf(sid) == {m \in messages : m.source_id = sid}

\* The k-th Position stored for the station, by timestamp
NthPosition(mmsi, k) ==
    CHOOSE p \in PositionsOf(mmsi) :
        Cardinality({q \in PositionsOf(mmsi) : q.timestamp < p.timestamp}) = k - 1

\* The k greatest members of a set of timestamps
Latest(ts, k) == {t \in ts : Cardinality({u \in ts : u > t}) < k}

Min(a, b) == IF a <= b THEN a ELSE b

\* The source holds is_paused = True: pause_source was applied and
\* resume_source has not been since
PausedFlag(srcs, sid) ==
    /\ sid \in DOMAIN srcs
    /\ "is_paused" \in DOMAIN srcs[sid]
    /\ srcs[sid].is_paused = TRUE

\* The source has the transport and the endpoint of the configuration
SameEndpoint(doc, config) ==
    /\ doc.source_type = config.stream_type
    /\ doc.config.host = config.host
    /\ doc.config.port = config.port
    /\ doc.config.serial_port = config.serial_port

-----------------------------------------------------------------------------
(* C1 *)

\* C1, as claimed: when the Positions of station 1 are, in order, one with
\* invalid coordinates, one with the valid coordinates (10, 20) and one with
\* invalid coordinates, the first has display coordinates (10, 20) and
\* backfilled = true, the third has display coordinates (10, 20), and both
\* invalid Positions have position_valid = false.
C1_ForwardBackfill ==
    (/\ Cardinality(PositionsOf(Station1)) = 3
     /\ ~ InRange(NthPosition(Station1, 1).lat, NthPosition(Station1, 1).lon)
     /\ NthPosition(Station1, 2).lat = Some(10)
     /\ NthPosition(Station1, 2).lon = Some(20)
     /\ ~ InRange(NthPosition(Station1, 3).lat, NthPosition(Station1, 3).lon))
    => (/\ NthPosition(Station1, 1).display_lat = Some(10)
        /\ NthPosition(Station1, 1).display_lon = Some(20)
        /\ Get(NthPosition(Station1, 1), "backfilled", FALSE) = TRUE
        /\ NthPosition(Station1, 3).display_lat = Some(10)
        /\ NthPosition(Station1, 3).display_lon = Some(20)
        /\ NthPosition(Station1, 1).position_valid = FALSE
        /\ NthPosition(Station1, 3).position_valid = FALSE)

-----------------------------------------------------------------------------
(* C2 *)

\* C2: pause_source puts the source in the paused state and only
\* resume_source takes it out of it; a sentence that arrives on a source
\* in the paused state stores no Message and no Position; a decoded sentence
\* that arrives on a source that is not in the paused state is stored as a
\* new Message, and as a new Position when it is a position report.
C2_PauseStopsStorage ==
    [][ /\ (last_op'.op = "pause_source" /\ last_op'.code = 200)
              => PausedFlag(sources', last_op'.sid)
        /\ (last_op'.op = "resume_source" /\ last_op'.code = 200)
              => ~ PausedFlag(sources', last_op'.sid)
        /\ \A sid \in DOMAIN sources :
              (PausedFlag(sources, sid) /\ ~ PausedFlag(sources', sid))
                  => (last_op'.op = "resume_source" /\ last_op'.sid = sid)
        /\ (last_op'.op = "deliver" /\ PausedFlag(sources, last_op'.sid))
              => (messages' = messages /\ positions' = positions)
        /\ (/\ last_op'.op = "deliver"
            /\ ~ PausedFlag(sources, last_op'.sid)
            /\ last_op'.arg.decode = "ok")
              => /\ \E m \in messages' \ messages :
                       /\ m.source_id = last_op'.sid
                       /\ m.raw = last_op'.arg
                       /\ m.timestamp = clock
                 /\ last_op'.arg.msg_type \in PositionTypes
                       => \E p \in positions' \ positions :
                              /\ p.source_id = last_op'.sid
                              /\ p.mmsi = last_op'.arg.mmsi
                              /\ p.timestamp = clock
      ]_vars

\* C2 witness: source 1 was paused and resumed and has received two position
\* reports, of which the one that arrived after the resume is the only
\* Message stored.
C2_Witness ==
    /\ last_op.op = "deliver"
    /\ last_op.sid = 1
    /\ last_op.arg = ValidReport
    /\ "is_paused" \in DOMAIN sources[1]
    /\ sources[1].is_paused = FALSE
    /\ "fragment_count" \notin DOMAIN sources[1]
    /\ sources[1].message_count = 3
    /\ sources[2].message_count = 0
    /\ Cardinality(messages) = 1
    /\ Cardinality(positions) = 1

-----------------------------------------------------------------------------
(* C3 *)

\* C3: for a source with message_limit L > 0 on which N decoded sentences
\* have been stored, exactly min(N, L) Messages of the source remain and
\* they are the min(N, L) latest by timestamp.
C3_MessageLimit ==
    \A sid \in DOMAIN sources :
        Get(sources[sid], "message_limit", DefaultMessageLimit) > 0
        => /\ Cardinality(MessagesOf(sid))
                = Min(Cardinality(inserted[sid]),
                      Get(sources[sid], "message_limit", DefaultMessageLimit))
           /\ {m.timestamp : m \in MessagesOf(sid)}
                = Latest(inserted[sid],
                         Min(Cardinality(inserted[sid]),
                             Get(sources[sid], "message_limit", DefaultMessageLimit)))

\* C3 witness: with L = 10, N = 15 sentences were stored and the 10 latest
\* remain.
C3_Witness ==
    /\ sources[1].message_limit = 10
    /\ inserted[1] = 1..15
    /\ {m.timestamp : m \in MessagesOf(1)} = 6..15

-----------------------------------------------------------------------------
(* C4 *)

\* C4: a start_stream whose transport and endpoint are those of a Source
\* record, whatever its status, answers 409 and leaves the Source records
\* and the running adapters as they were.
C4_DuplicateRejected ==
    [][ (/\ last_op'.op = "start_stream"
         /\ \E sid \in DOMAIN sources : SameEndpoint(sources[sid], last_op'.arg))
        => (/\ last_op'.code = 409
            /\ sources' = sources
            /\ active_streams' = active_streams) ]_vars

\* C4 witness: a start_stream was rejected because of a Source that is
\* inactive.
C4_Witness ==
    /\ last_op.op = "start_stream"
    /\ last_op.code = 409
    /\ \E sid \in DOMAIN sources :
          /\ sources[sid].status = "inactive"
          /\ sid \notin DOMAIN active_streams
          /\ SameEndpoint(sources[sid], last_op.arg)

-----------------------------------------------------------------------------
(* C5 *)

\* C5, as claimed: the position_count of every vessel is the number of
\* Positions stored for its station.
C5_PositionCount ==
    \A mmsi \in DOMAIN vessels :
        Get(vessels[mmsi], "position_count", 0) = Cardinality(PositionsOf(mmsi))

-----------------------------------------------------------------------------
(* C6 *)

\* C6: is_valid_position answers true exactly when both coordinates are
\* given, the latitude is in [-90, 90] and the longitude is in [-180, 180].
C6_ValidExactlyInRange ==
    v_out # None => (v_out[1] = TRUE <=> InRange(v_lat, v_lon))

\* C6 witness: the corner (-90, 180) was judged valid.
C6_Witness ==
    /\ v_out = Some(TRUE)
    /\ v_lat = Some(-90)
    /\ v_lon = Some(180)

-----------------------------------------------------------------------------
(* C7 *)

\* The candidates of a source: its Positions that are not its own
\* transmissions, were not relayed and have display coordinates
QualifyingCandidates(sid) ==
    {p \in positions :
        /\ p.source_id = sid
        /\ p.is_vdo # TRUE
        /\ p.repeat_indicator <= 0
        /\ p.display_lat # None
        /\ p.display_lon # None}

\* C7, as claimed: the radius_km of every anchor entry of vdo_data is the
\* greatest of the distances from the anchor to the qualifying candidates of
\* its source that are at most the source's spoof_limit_km, and 0 when
\* there is none.
C7_SpoofRadius ==
    \A e \in get_active_vessels.vdo_data :
        LET within ==
                {d \in {distance_km(e.lat[1], e.lon[1],
                                    p.display_lat[1], p.display_lon[1]) :
                            p \in QualifyingCandidates(e.source_id)} :
                    d <= e.spoof_limit_km}
        IN  e.radius_km = IF within = {} THEN 0
                          ELSE CHOOSE x \in within : \A y \in within : y <= x

-----------------------------------------------------------------------------
(* C8 *)

\* out is the text with the blanks at its two ends taken off
IsTrimOf(out, text) ==
    /\ out = <<>> \/ (Head(out) # " " /\ out[Len(out)] # " ")
    /\ \E i \in 0..Len(text) :
          /\ i + Len(out) <= Len(text)
          /\ SubSeq(text, i + 1, i + Len(out)) = out
          /\ \A k \in (1..i) \cup ((i + Len(out) + 1)..Len(text)) : text[k] = " "

-----------------------------------------------------------------------------
(* C9 *)

\* C9, as claimed: every vessel of the active listing has a last_position
\* with display coordinates that are given and in range.
C9_ActiveListingComplete ==
    \A v \in get_active_vessels.vessels :
        /\ "last_position" \in DOMAIN v
        /\ InRange(v.last_position.display_lat, v.last_position.display_lon)

-----------------------------------------------------------------------------
(* C10 *)

\* C10, as claimed: the last_position get_vessel answers with for a station
\* has display coordinates that are given and in range, never the null
\* display coordinates of an invalid Position.
C10_LastPositionDisplayable ==
    \A mmsi \in DOMAIN vessels :
        "last_position" \in DOMAIN get_vessel(mmsi)[1]
        => InRange(get_vessel(mmsi)[1].last_position.display_lat,
                   get_vessel(mmsi)[1].last_position.display_lon)

-----------------------------------------------------------------------------
(* C11 *)

\* C11: the display coordinates of every stored Position are both null or
\* both given and in range, also when they were copied from an earlier
\* Position of the station.
C11_DisplayNullOrInRange ==
    \A p \in positions :
        \/ p.display_lat = None /\ p.display_lon = None
        \/ InRange(p.display_lat, p.display_lon)

\* C11 witness: a Position with the out-of-range coordinates (91, 181) is
\* stored with the display coordinates (10, 20) of an earlier Position.
C11_Witness ==
    \E p \in positions :
        /\ p.lat = Some(91)
        /\ p.lon = Some(181)
        /\ p.position_valid = FALSE
        /\ p.display_lat = Some(10)
        /\ p.display_lon = Some(20)
        /\ \E q \in PositionsOf(p.mmsi) :
              q.timestamp < p.timestamp /\ q.position_valid = TRUE

-----------------------------------------------------------------------------
(* SpecPurge: ingestion on one source with message_limit 10, past the limit *)

PurgeCorpus == {ValidReport, InvalidReport}

PurgeNext ==
    \E sid \in DOMAIN active_streams, s \in PurgeCorpus :
        clock <= PurgeMaxClock /\ Deliver(sid, s)

SpecPurge == LimitInit /\ [][PurgeNext]_vars

-----------------------------------------------------------------------------
(* C12 *)

\* C12, as claimed: a Position of a station that was stored after a position
\* report with valid coordinates was processed for the station has display
\* coordinates that are not null, whatever was processed and purged in
\* between.
C12_NoNullAfterFix ==
    \A p \in positions :
        (\E r \in reported :
            /\ r.mmsi = p.mmsi
            /\ r.timestamp < p.timestamp
            /\ InRange(r.lat, r.lon))
        => (p.display_lat # None /\ p.display_lon # None)

\* The second half of C12, which the code keeps: no step takes the display
\* coordinates of a stored Position from non-null to null.
DisplayNeverReverted ==
    [][ \A p \in positions : \A q \in positions' :
           (q._id = p._id /\ p.display_lat # None /\ p.display_lon # None)
           => (q.display_lat # None /\ q.display_lon # None) ]_vars

-----------------------------------------------------------------------------
(* C13 *)

\* C13, as claimed: when the decoder fails on a sentence of a source that
\* is not paused, by returning nothing or by raising, the source's
\* fragment_count grows by exactly one and no Message, Position or Vessel is
\* stored.
C13_DecodeFailureCounted ==
    [][ (/\ last_op'.op = "deliver"
         /\ last_op'.arg.decode \in {"none", "raise"}
         /\ ~ PausedFlag(sources, last_op'.sid))
        => (/\ Get(sources'[last_op'.sid], "fragment_count", 0)
                 = Get(sources[last_op'.sid], "fragment_count", 0) + 1
            /\ messages' = messages
            /\ positions' = positions
            /\ vessels' = vessels) ]_vars

-----------------------------------------------------------------------------
(* C14 *)

\* C14, as claimed: the message_count of a source is the number of its
\* sentences that decoded and were stored.
C14_MessageCountIsDecoded ==
    \A sid \in DOMAIN sources :
        Get(sources[sid], "message_count", 0) = Cardinality(inserted[sid])

-----------------------------------------------------------------------------
(* C15 *)

\* C15, as claimed: a sentence that an adapter reads while its source is
\* paused leaves the source's message_count, fragment_count, target_count
\* and last_message as they were.
C15_PausedCountersFrozen ==
    [][ (last_op'.op = "deliver" /\ PausedFlag(sources, last_op'.sid))
        => \A field \in {"message_count", "fragment_count", "target_count",
                         "last_message"} :
              Get(sources'[last_op'.sid], field, 0)
                  = Get(sources[last_op'.sid], field, 0) ]_vars

-----------------------------------------------------------------------------
(* backend-sqlite/server.py: the SQLite backend.  Its database is the record
   [sources, messages, positions, vessels]; a table with a primary key is a
   function from the key to the row, the other tables are sets of rows.
   sq_clock supplies both datetime.now() and the AUTOINCREMENT row ids; the
   sentences carry no usable 'second' field, so that
   sync_timestamp_with_message returns the receive time. *)

SqDatabase(srcs, msgs, poss, vs) ==
    [sources |-> srcs, messages |-> msgs, positions |-> poss, vessels |-> vs]

\* is_valid_position of the SQLite backend.  The function itself has no test
\* for None: its callers test both coordinates before they call it, which
\* is the first branch here
sq_is_valid_position(lat, lon) ==
    IF lat = None \/ lon = None THEN FALSE
    ELSE IF lat[1] = 91 \/ lon[1] = 181 THEN FALSE
    ELSE IF lat[1] = 0 /\ lon[1] = 0 THEN FALSE
    ELSE IF lat[1] < -90 \/ lat[1] > 90 \/ lon[1] < -180 \/ lon[1] > 180 THEN FALSE
    ELSE TRUE

\* The WHERE clause of get_last_valid_position
sq_row_looks_valid(p) ==
    /\ p.lat # Some(91) /\ p.lon # Some(181)
    /\ p.lat # Some(0) /\ p.lon # Some(0)

\* get_last_valid_position: the newest row of the station passing the filter
sq_get_last_valid_position(poss, mmsi) ==
    LET cand == {p \in poss : p.mmsi = mmsi /\ sq_row_looks_valid(p)}
    IN  IF cand = {} THEN None
        ELSE Some(CHOOSE p \in cand : \A q \in cand : q.timestamp <= p.timestamp)

\* The WHERE clause of backfill_invalid_positions
sq_row_is_sentinel(p) ==
    \/ p.lat = Some(91)
    \/ p.lon = Some(181)
    \/ (p.lat = Some(0) /\ p.lon = Some(0))

\* backfill_invalid_positions, called by process_position_report after its
\* INSERT and before its commit.  The function opens a connection of its
\* own and selects the station's sentinel rows among the committed ones;
\* without any it does nothing.  With some, its UPDATE positions SET lat, lon
\* needs the database's write lock, which the caller's connection holds for
\* the uncommitted INSERT and cannot release while it awaits this call: the
\* UPDATE ends in "database is locked" and changes no row
sq_backfill_invalid_positions(committed, mmsi) ==
    IF {p \in committed : p.mmsi = mmsi /\ sq_row_is_sentinel(p)} = {}
    THEN "done"
    ELSE "locked"

\* A row of the vessels table written by INSERT OR REPLACE: the columns the
\* statement names, every other column back to its default
sq_vessel_row(mmsi, ts, lat, lon, position_count, ship_type, ship_type_text) ==
    [mmsi |-> mmsi, last_seen |-> ts, lat |-> lat, lon |-> lon,
     position_count |-> position_count, country |-> get_mmsi_country(mmsi),
     ship_type |-> ship_type, ship_type_text |-> ship_type_text,
     name |-> None, callsign |-> None]

\* The row process_static_voyage_data writes with INSERT OR REPLACE: the
\* identity columns it names, lat and lon NULL, position_count at its default
sq_static_vessel_row(s, ts) ==
    [mmsi |-> s.mmsi, last_seen |-> ts, lat |-> None, lon |-> None,
     position_count |-> 0, country |-> get_mmsi_country(s.mmsi),
     ship_type |-> s.shiptype,
     ship_type_text |-> Some(get_ship_type_text(IF s.shiptype = None THEN 0
                                                ELSE s.shiptype[1])),
     name |-> Some(StrippedOrEmpty(s.shipname)),
     callsign |-> Some(StrippedOrEmpty(s.callsign))]

sq_replace_vessel(vs, row) ==
    [m \in (DOMAIN vs) \cup {row.mmsi} |-> IF m = row.mmsi THEN row ELSE vs[m]]

\* process_position_report (types 1, 2, 3): the position row is inserted
\* without a message_id; the helper connections of the invalid branch see
\* the rows committed before this sentence.  When the backfill raises, the
\* handler's connection is closed without a commit and its INSERT is undone
sq_process_position_report(d, s, sid, ts) ==
    IF s.lat = None \/ s.lon = None THEN d
    ELSE
      LET row == [id |-> ts, mmsi |-> s.mmsi, timestamp |-> ts,
                  lat |-> s.lat, lon |-> s.lon,
                  source_id |-> sid, message_id |-> None]
          poss == d.positions \cup {row}
      IN  IF sq_is_valid_position(s.lat, s.lon)
          THEN LET pos_count == Cardinality({p \in poss : p.mmsi = s.mmsi})
               IN  [d EXCEPT !.positions = poss,
                             !.vessels = sq_replace_vessel(@,
                                 sq_vessel_row(s.mmsi, ts, s.lat, s.lon,
                                               pos_count, None, None))]
          ELSE LET last_valid == sq_get_last_valid_position(d.positions, s.mmsi)
               IN  IF last_valid = None THEN [d EXCEPT !.positions = poss]
                   ELSE IF sq_backfill_invalid_positions(d.positions, s.mmsi) = "done"
                   THEN [d EXCEPT !.positions = poss]
                   ELSE d

\* process_base_station_report (type 4): stored only when the position is
\* valid; the vessel row is replaced with ship_type 0 and the default
\* position_count
sq_process_base_station_report(d, s, sid, ts) ==
    IF sq_is_valid_position(s.lat, s.lon)
    THEN LET row == [id |-> ts, mmsi |-> s.mmsi, timestamp |-> ts,
                     lat |-> s.lat, lon |-> s.lon,
                     source_id |-> sid, message_id |-> None]
         IN  [d EXCEPT !.positions = @ \cup {row},
                       !.vessels = sq_replace_vessel(@,
                           sq_vessel_row(s.mmsi, ts, s.lat, s.lon,
                                         0, Some(0), Some("Base Station")))]
    ELSE d

\* process_class_b_position (type 18): stored only when the position is
\* valid
sq_process_class_b_position(d, s, sid, ts) ==
    IF sq_is_valid_position(s.lat, s.lon)
    THEN LET row == [id |-> ts, mmsi |-> s.mmsi, timestamp |-> ts,
                     lat |-> s.lat, lon |-> s.lon,
                     source_id |-> sid, message_id |-> None]
             poss == d.positions \cup {row}
             pos_count == Cardinality({p \in poss : p.mmsi = s.mmsi})
         IN  [d EXCEPT !.positions = poss,
                       !.vessels = sq_replace_vessel(@,
                           sq_vessel_row(s.mmsi, ts, s.lat, s.lon,
                                         pos_count, None, None))]
    ELSE d

\* process_static_voyage_data (type 5)
sq_process_static_voyage_data(d, s, ts) ==
    [d EXCEPT !.vessels = sq_replace_vessel(@, sq_static_vessel_row(s, ts))]

\* lines 463-487: with a positive message_limit and at least that many
\* messages of the source stored (the new one included), delete the oldest
\* message_count - message_limit + 1 of them and the positions whose
\* message_id is one of theirs
sq_purge_messages(d, sid) ==
    IF sid \in DOMAIN d.sources /\ d.sources[sid].message_limit > 0
    THEN LET own == {m \in d.messages : m.source_id = sid}
             message_count == Cardinality(own)
             message_limit == d.sources[sid].message_limit
         IN  IF message_count >= message_limit
             THEN LET old == {m \in own :
                               Cardinality({x \in own :
                                   \/ x.timestamp < m.timestamp
                                   \/ x.timestamp = m.timestamp /\ x.id < m.id})
                                 < message_count - message_limit + 1}
                      old_ids == {Some(m.id) : m \in old}
                  IN  [d EXCEPT !.messages = @ \ old,
                                !.positions =
                                    {p \in @ : p.message_id \notin old_ids}]
             ELSE d
    ELSE d

\* UPDATE sources ... WHERE source_id = ?: no row, no change
sq_update_source(srcs, sid, F(_)) ==
    [k \in DOMAIN srcs |-> IF k = sid THEN F(srcs[k]) ELSE srcs[k]]

\* process_ais_message: a decoder exception counts a fragment and returns.
\* The handler calls .get on the decoder's result: a result of None, and a
\* result that is a message object (which the Mongo backend converts with
\* asdict() first), fail there and are caught by the outer handler, which
\* logs.  A decoded mapping is stored, the source's limit applied, the
\* counters updated and the type's handler run
sq_process_ais_message(d, s, sid, ts, decoder) ==
    IF s.frame \notin {"VDM", "VDO"} THEN d
    ELSE IF s.decode = "raise"
    THEN [d EXCEPT !.sources = sq_update_source(@, sid,
                LAMBDA r : [r EXCEPT !.fragment_count = @ + 1])]
    ELSE IF s.decode = "none" \/ decoder = "object" THEN d
    ELSE
      LET msg == [id |-> ts, mmsi |-> s.mmsi, timestamp |-> ts,
                  message_type |-> s.msg_type, source_id |-> sid]
          d1 == [d EXCEPT !.messages = @ \cup {msg}]
          d2 == sq_purge_messages(d1, sid)
          d3 == [d2 EXCEPT !.sources = sq_update_source(@, sid,
                    LAMBDA r : [r EXCEPT !.last_message = Some(ts),
                                         !.message_count = @ + 1])]
      IN  CASE s.msg_type \in {1, 2, 3} -> sq_process_position_report(d3, s, sid, ts)
            [] s.msg_type = 4 -> sq_process_base_station_report(d3, s, sid, ts)
            [] s.msg_type = 5 -> sq_process_static_voyage_data(d3, s, ts)
            [] s.msg_type = 18 -> sq_process_class_b_position(d3, s, sid, ts)
            [] OTHER -> d3

\* The row start_stream inserts: the columns it names, the others at the
\* defaults of init_db
sq_source_row(sid, config, ts) ==
    [source_id |-> sid, source_type |-> config.stream_type, config |-> config,
     status |-> "active", created_at |-> ts, last_message |-> None,
     message_count |-> 0, target_count |-> 0, fragment_count |-> 0,
     message_limit |-> 0, target_limit |-> 0, keep_non_vessel_targets |-> TRUE,
     is_paused |-> FALSE, processing_complete |-> FALSE]

\* What the decoder's result type lets process_ais_message store
SqDecoders == {"mapping", "object"}

\* The TCP endpoints offered to the SQLite start_stream
SqConfigs == {TcpUdpConfig("tcp", "h1", 4001)}

\* POST /stream/start: no duplicate check; the source row is inserted, the
\* adapter registered as running and its worker scheduled, which opens the
\* connection
sq_start_stream(config) ==
    /\ Cardinality(DOMAIN sq_pc) < SqMaxSources
    /\ LET sid == sq_clock
       IN  /\ sq_sources' = sid :> sq_source_row(sid, config, sq_clock) @@ sq_sources
           /\ sq_streams' = sid :> [running |-> TRUE, type |-> config.stream_type]
                              @@ sq_streams
           /\ sq_pc' = sid :> "check" @@ sq_pc
           /\ sq_input' = sid :> <<>> @@ sq_input
           /\ sq_last_op' = Op("start_stream", sid, None, 200)
    /\ sq_clock' = sq_clock + 1
    /\ UNCHANGED <<sq_messages, sq_positions, sq_vessels, sq_forwarded,
                   sq_attributed, sq_decoder, db_vars, valid_vars, ext_vars>>

\* The handlers that only UPDATE one column of the source's row
sq_set_column(name, sid, F(_), arg) ==
    /\ sq_sources' = sq_update_source(sq_sources, sid, F)
    /\ sq_last_op' = Op(name, sid, arg, 200)
    /\ UNCHANGED <<sq_messages, sq_positions, sq_vessels, sq_streams, sq_input,
                   sq_pc, sq_clock, sq_forwarded, sq_attributed, sq_decoder,
                   db_vars, valid_vars, ext_vars>>

\* POST /sources/{id}/pause
sq_pause_source(sid) ==
    sq_set_column("pause_source", sid, LAMBDA r : [r EXCEPT !.is_paused = TRUE], None)

\* POST /sources/{id}/resume
sq_resume_source(sid) ==
    sq_set_column("resume_source", sid, LAMBDA r : [r EXCEPT !.is_paused = FALSE], None)

\* PATCH /sources/{id}/message-limit
sq_update_message_limit(sid, message_limit) ==
    sq_set_column("update_message_limit", sid,
                  LAMBDA r : [r EXCEPT !.message_limit = message_limit],
                  Some(message_limit))

\* PATCH /sources/{id}/target-limit
sq_update_target_limit(sid, target_limit) ==
    sq_set_column("update_target_limit", sid,
                  LAMBDA r : [r EXCEPT !.target_limit = target_limit],
                  Some(target_limit))

\* PATCH /sources/{id}/toggle: 404 without a row, else the status column is
\* flipped; active_streams is not consulted
sq_toggle_source(sid) ==
    IF sid \notin DOMAIN sq_sources
    THEN /\ sq_last_op' = Op("toggle_source", sid, None, 404)
         /\ UNCHANGED <<sq_sources, sq_messages, sq_positions, sq_vessels,
                        sq_streams, sq_input, sq_pc, sq_clock, sq_forwarded,
                        sq_attributed, sq_decoder, db_vars, valid_vars, ext_vars>>
    ELSE LET new_status == IF sq_sources[sid].status = "active"
                           THEN "inactive" ELSE "active"
         IN  /\ sq_sources' = [sq_sources EXCEPT ![sid].status = new_status]
             /\ sq_last_op' = Op("toggle_source", sid, Some(new_status), 200)
             /\ UNCHANGED <<sq_messages, sq_positions, sq_vessels, sq_streams,
                            sq_input, sq_pc, sq_clock, sq_forwarded,
                            sq_attributed, sq_decoder, db_vars, valid_vars, ext_vars>>

\* DELETE /sources/{id}?delete_data=: the source's messages and positions
\* are deleted on request, then its row; its adapter leaves active_streams.
\* The vessels table is not touched
sq_delete_source(sid, delete_data) ==
    /\ sq_messages' = IF delete_data
                      THEN {m \in sq_messages : m.source_id # sid} ELSE sq_messages
    /\ sq_positions' = IF delete_data
                       THEN {p \in sq_positions : p.source_id # sid} ELSE sq_positions
    /\ sq_sources' = [k \in DOMAIN sq_sources \ {sid} |-> sq_sources[k]]
    /\ sq_streams' = [k \in DOMAIN sq_streams \ {sid} |-> sq_streams[k]]
    /\ sq_last_op' = Op("delete_source", sid, Some(delete_data), 200)
    /\ UNCHANGED <<sq_vessels, sq_input, sq_pc, sq_clock, sq_forwarded,
                   sq_attributed, sq_decoder, db_vars, valid_vars, ext_vars>>

\* The number of sentences that have reached an adapter's input so far
SqArrived ==
    Cardinality(sq_forwarded)
    + Cardinality(UNION {{<<sid, i>> : i \in 1..Len(sq_input[sid])} :
                            sid \in DOMAIN sq_input})

\* A sentence reaches the adapter's input: the peer writes a line to the
\* connected socket, where it waits until the worker reads it.  The item
\* remembers whether the source was paused at that moment; max_input bounds
\* the sentences a run receives
sq_Arrive(sid, s, max_input) ==
    /\ SqArrived < max_input
    /\ sid \in DOMAIN sq_input
    /\ sid \in DOMAIN sq_pc /\ sq_pc[sid] # "done"
    /\ sq_input' = [sq_input EXCEPT ![sid] =
           Append(@, [sentence |-> s, at |-> sq_clock,
                      while_paused |-> (/\ sid \in DOMAIN sq_sources
                                        /\ sq_sources[sid].is_paused)])]
    /\ sq_clock' = sq_clock + 1
    /\ sq_last_op' = Op("arrive", sid, None, 200)
    /\ UNCHANGED <<sq_sources, sq_messages, sq_positions, sq_vessels, sq_streams,
                   sq_pc, sq_forwarded, sq_attributed, sq_decoder, db_vars,
                   valid_vars, ext_vars>>

\* tcp_stream_worker, the head of its loop: leave when the adapter is gone or
\* stopped (the finally clause clears running); sleep and come back when the
\* source is paused; else go on to readline()
tcp_stream_worker_check(sid) ==
    /\ sid \in DOMAIN sq_pc /\ sq_pc[sid] = "check"
    /\ IF ~(sid \in DOMAIN sq_streams /\ sq_streams[sid].running)
       THEN /\ sq_pc' = [sq_pc EXCEPT ![sid] = "done"]
            /\ sq_streams' = [k \in DOMAIN sq_streams |->
                                IF k = sid THEN [sq_streams[k] EXCEPT !.running = FALSE]
                                ELSE sq_streams[k]]
            /\ sq_last_op' = Op("worker_exit", sid, None, 200)
       ELSE IF sid \in DOMAIN sq_sources /\ sq_sources[sid].is_paused
       THEN /\ sq_last_op' = Op("worker_sleep", sid, None, 200)
            /\ UNCHANGED <<sq_pc, sq_streams>>
       ELSE /\ sq_pc' = [sq_pc EXCEPT ![sid] = "read"]
            /\ sq_last_op' = Op("worker_check", sid, None, 200)
            /\ UNCHANGED sq_streams
    /\ UNCHANGED <<sq_sources, sq_messages, sq_positions, sq_vessels, sq_input,
                   sq_clock, sq_forwarded, sq_attributed, sq_decoder, db_vars,
                   valid_vars, ext_vars>>

\* tcp_stream_worker, readline() returning a line: the line is handed to
\* process_ais_message and the loop starts over
tcp_stream_worker_read(sid) ==
    /\ sid \in DOMAIN sq_pc /\ sq_pc[sid] = "read"
    /\ sq_input[sid] # <<>>
    /\ LET item == Head(sq_input[sid])
           s == item.sentence
           d == sq_process_ais_message(
                    SqDatabase(sq_sources, sq_messages, sq_positions, sq_vessels),
                    s, sid, sq_clock, sq_decoder)
       IN  /\ sq_sources' = d.sources
           /\ sq_messages' = d.messages
           /\ sq_positions' = d.positions
           /\ sq_vessels' = d.vessels
           /\ sq_forwarded' = sq_forwarded \cup
                  {[source_id |-> sid, at |-> item.at,
                    while_paused |-> item.while_paused,
                    paused_now |-> (/\ sid \in DOMAIN sq_sources
                                    /\ sq_sources[sid].is_paused)]}
           /\ sq_attributed' =
                  IF s.decode = "ok" /\ sq_decoder = "mapping"
                  THEN sq_attributed \cup
                           {[mmsi |-> s.mmsi, source_id |-> sid, msg_type |-> s.msg_type,
                             timestamp |-> sq_clock, lat |-> s.lat, lon |-> s.lon]}
                  ELSE sq_attributed
    /\ sq_input' = [sq_input EXCEPT ![sid] = Tail(@)]
    /\ sq_pc' = [sq_pc EXCEPT ![sid] = "check"]
    /\ sq_clock' = sq_clock + 1
    /\ sq_last_op' = Op("worker_read", sid, None, 200)
    /\ UNCHANGED <<sq_streams, sq_decoder, db_vars, valid_vars, ext_vars>>

-----------------------------------------------------------------------------
(* SpecSqliteStream: one TCP source of the SQLite backend, its worker, and
   the handlers that pause, resume and toggle it *)

SqStreamCorpus == {ValidReport}

SqStreamInit ==
    /\ EmptyDb /\ ValidatorIdle /\ ExtIdle
    /\ SqliteNoData
    /\ sq_decoder \in SqDecoders

SqStreamNext ==
    \/ \E config \in SqConfigs : sq_start_stream(config)
    \/ \E sid \in DOMAIN sq_pc : sq_pause_source(sid)
    \/ \E sid \in DOMAIN sq_pc : sq_resume_source(sid)
    \/ \E sid \in DOMAIN sq_pc : sq_toggle_source(sid)
    \/ \E sid \in DOMAIN sq_pc, s \in SqStreamCorpus : sq_Arrive(sid, s, SqMaxInput)
    \/ \E sid \in DOMAIN sq_pc : tcp_stream_worker_check(sid)
    \/ \E sid \in DOMAIN sq_pc : tcp_stream_worker_read(sid)

SpecSqliteStream == SqStreamInit /\ [][SqStreamNext]_vars

\* C16, as claimed: a sentence that reached the input of a stream adapter of
\* the SQLite backend while its source was paused is never handed to
\* process_ais_message, neither during the pause nor after the source is
\* resumed.
C16_PausedInputDiscarded ==
    \A f \in sq_forwarded : ~f.while_paused

\* C17, as claimed: a toggle_source that turns a source inactive leaves no
\* adapter of the source running, and one that turns it active leaves an
\* adapter of the source running.
C17_ToggleStopsAndStarts ==
    [][ (/\ sq_last_op'.op = "toggle_source"
         /\ sq_last_op'.code = 200
         /\ sq_sources' # sq_sources)
        => LET sid == sq_last_op'.sid
               running == /\ sid \in DOMAIN sq_streams'
                          /\ sq_streams'[sid].running
           IN  /\ sq_sources'[sid].status = "inactive" => ~running
               /\ sq_sources'[sid].status = "active" => running ]_vars

\* The source has been deactivated: its row is gone or inactive, or its
\* adapter has been taken out of active_streams or stopped
SqDeactivated(sid) ==
    \/ sid \notin DOMAIN sq_sources
    \/ sq_sources[sid].status = "inactive"
    \/ sid \notin DOMAIN sq_streams
    \/ ~ sq_streams[sid].running

\* C34, as claimed (SQLite workers): once a stream source is deactivated and
\* not reactivated, its adapter hands no sentence to process_ais_message
\* that it reads after the deactivation.
C34_NoForwardAfterDeactivation ==
    [][ sq_last_op'.op = "worker_read" => ~ SqDeactivated(sq_last_op'.sid) ]_vars

-----------------------------------------------------------------------------
(* SpecSqliteData: two TCP sources of the SQLite backend feeding the tables,
   with the handlers that set the limits and delete a source *)

\* GET /vessels/active with its default parameters: the vessels with at least
\* min_positions = 1 positions seen within the window, which the bounded
\* clock never leaves; no column of the sources table is read
sq_get_active_vessels(vs) ==
    {m \in DOMAIN vs : vs[m].position_count >= 1}

SqDataCorpus == {ValidReport, RepeatedReport, OwnBaseStation}

\* Two sources started by start_stream, their workers at the head of the loop
SqRegistered ==
    /\ sq_sources = [sid \in {1, 2} |->
                        sq_source_row(sid, TcpUdpConfig("tcp", "h1", 4000 + sid), sid)]
    /\ sq_streams = [sid \in {1, 2} |-> [running |-> TRUE, type |-> "tcp"]]
    /\ sq_pc = [sid \in {1, 2} |-> "check"]
    /\ sq_input = [sid \in {1, 2} |-> <<>>]
    /\ sq_messages = {}
    /\ sq_positions = {}
    /\ sq_vessels = <<>>
    /\ sq_clock = 3
    /\ sq_last_op = Op("start_stream", 2, None, 200)
    /\ sq_forwarded = {}
    /\ sq_attributed = {}

SqDataInit ==
    /\ EmptyDb /\ ValidatorIdle /\ ExtIdle
    /\ SqRegistered
    /\ sq_decoder \in SqDecoders

SqDataNext ==
    \/ \E sid \in DOMAIN sq_pc, s \in SqDataCorpus : sq_Arrive(sid, s, SqMaxInput)
    \/ \E sid \in DOMAIN sq_pc : tcp_stream_worker_check(sid)
    \/ \E sid \in DOMAIN sq_pc : tcp_stream_worker_read(sid)
    \/ \E sid \in DOMAIN sq_pc : sq_update_message_limit(sid, 2)
    \/ \E sid \in DOMAIN sq_pc : sq_update_target_limit(sid, 1)
    \/ \E sid \in DOMAIN sq_pc, delete_data \in BOOLEAN :
           sq_delete_source(sid, delete_data)

SpecSqliteData == SqDataInit /\ [][SqDataNext]_vars

\* The registered sources a stored sentence of the station came from
SqSourcesOf(mmsi, srcs) ==
    {r.source_id : r \in {x \in sq_attributed : x.mmsi = mmsi}} \cap DOMAIN srcs

\* The station has reported as a base station or an aid to navigation
SqNonVessel(mmsi) ==
    \E r \in sq_attributed : r.mmsi = mmsi /\ r.msg_type \in {4, 21}

\* C18, as claimed: after delete_source with delete_data = true no Message
\* and no Position of the source remains, every Vessel that was attributed
\* only to that source is removed, and every Vessel also attributed to
\* another source remains.
C18_DeleteRemovesOwnData ==
    [][ (/\ sq_last_op'.op = "delete_source"
         /\ sq_last_op'.arg = Some(TRUE)
         /\ sq_sources' # sq_sources)
        => LET sid == sq_last_op'.sid
           IN  /\ \A m \in sq_messages' : m.source_id # sid
               /\ \A p \in sq_positions' : p.source_id # sid
               /\ \A v \in DOMAIN sq_vessels :
                      /\ SqSourcesOf(v, sq_sources) = {sid}
                             => v \notin DOMAIN sq_vessels'
                      /\ SqSourcesOf(v, sq_sources) \ {sid} # {}
                             => v \in DOMAIN sq_vessels' ]_vars

\* C19, as claimed: for an active source with a target limit L > 0,
\* get_active_vessels lists at most L stations on account of that source,
\* base stations and aids to navigation not counted when the source keeps
\* non-vessel targets.
C19_TargetLimitApplied ==
    \A sid \in DOMAIN sq_sources :
        (sq_sources[sid].status = "active" /\ sq_sources[sid].target_limit > 0)
        => Cardinality({m \in sq_get_active_vessels(sq_vessels) :
                           /\ SqSourcesOf(m, sq_sources) = {sid}
                           /\ ~(sq_sources[sid].keep_non_vessel_targets
                                /\ SqNonVessel(m))})
             <= sq_sources[sid].target_limit

\* C20, as claimed: the message-limit purge deletes the Position created from
\* each Message it purges, so that every stored Position of a registered
\* source has its Message stored.
C20_PurgeTakesPositions ==
    \A p \in sq_positions :
        p.source_id \in DOMAIN sq_sources
        => \E m \in sq_messages : /\ m.source_id = p.source_id
                                  /\ m.mmsi = p.mmsi
                                  /\ m.timestamp = p.timestamp

\* C21, as claimed: in the SQLite backend, a decoded sentence stored for a
\* source with message_limit = L > 0 leaves min(n, L) Messages of the source
\* stored, n being the number stored before plus the new one: exactly L once
\* L sentences have been processed.
C21_SqliteKeepsLimit ==
    [][ (/\ sq_last_op'.op = "worker_read"
         /\ sq_messages' # sq_messages
         /\ sq_last_op'.sid \in DOMAIN sq_sources
         /\ sq_sources[sq_last_op'.sid].message_limit > 0)
        => LET sid == sq_last_op'.sid
               n == Cardinality({m \in sq_messages : m.source_id = sid}) + 1
           IN  Cardinality({m \in sq_messages' : m.source_id = sid})
                 = Min(n, sq_sources[sid].message_limit) ]_vars

\* C29, as claimed: for every pair of non-null coordinates the SQLite
\* backend's is_valid_position gives the result of the Mongo backend's
\* is_valid_position.
C29_ValidatorsAgree ==
    (v_out # None /\ v_lat # None /\ v_lon # None)
    => v_out[1] = sq_is_valid_position(v_lat, v_lon)

-----------------------------------------------------------------------------
(* SpecBroadcast: ConnectionManager, the same class in both backends
   (backend/server.py lines 40-57, backend-sqlite/server.py lines 63-80),
   and the /ws endpoint that owns each listener's socket.  The handlers of
   the stores call manager.broadcast after they have committed; the
   specifications of the stores run with no listener connected. *)

Listeners == 1..MaxListeners

Listening == {active_connections[i] : i \in DOMAIN active_connections}

\* list.remove(x): the first occurrence is taken out
RECURSIVE ListRemove(_, _)
ListRemove(list, x) ==
    IF list = <<>> THEN <<>>
    ELSE IF Head(list) = x THEN Tail(list)
    ELSE <<Head(list)>> \o ListRemove(Tail(list), x)

\* ConnectionManager.connect, called by websocket_endpoint for a new socket
connect(websocket) ==
    /\ websocket \notin Listening
    /\ websocket \notin ws_broken
    /\ active_connections' = Append(active_connections, websocket)
    /\ UNCHANGED <<ws_broken, ws_event, ws_attempted, ws_received>>
    /\ UNCHANGED <<db_vars, valid_vars, sqlite_vars, enrich_vars, tasks>>

\* The peer of a connected socket goes away: from now on send_json raises
SocketBreaks(websocket) ==
    /\ websocket \in Listening
    /\ websocket \notin ws_broken
    /\ ws_broken' = ws_broken \cup {websocket}
    /\ UNCHANGED <<active_connections, ws_event, ws_attempted, ws_received>>
    /\ UNCHANGED <<db_vars, valid_vars, sqlite_vars, enrich_vars, tasks>>

\* websocket_endpoint: receive_text raises WebSocketDisconnect on a socket
\* whose peer is gone, and the endpoint calls ConnectionManager.disconnect
websocket_endpoint_disconnect(websocket) ==
    /\ websocket \in Listening
    /\ websocket \in ws_broken
    /\ active_connections' = ListRemove(active_connections, websocket)
    /\ UNCHANGED <<ws_broken, ws_event, ws_attempted, ws_received>>
    /\ UNCHANGED <<db_vars, valid_vars, sqlite_vars, enrich_vars, tasks>>

\* ConnectionManager.broadcast: send_json to every connection in turn; an
\* exception of a send is swallowed (except: pass) and the loop goes on
broadcast ==
    /\ ws_event <= MaxEvents
    /\ ws_attempted' = ws_attempted \cup {<<ws_event, w>> : w \in Listening}
    /\ ws_received' = ws_received \cup {<<ws_event, w>> : w \in Listening \ ws_broken}
    /\ ws_event' = ws_event + 1
    /\ UNCHANGED <<active_connections, ws_broken>>
    /\ UNCHANGED <<db_vars, valid_vars, sqlite_vars, enrich_vars, tasks>>

BroadcastInit ==
    EmptyDb /\ ValidatorIdle /\ SqliteEmpty /\ ExtIdle

BroadcastNext ==
    \/ \E websocket \in Listeners : connect(websocket)
    \/ \E websocket \in Listeners : SocketBreaks(websocket)
    \/ \E websocket \in Listeners : websocket_endpoint_disconnect(websocket)
    \/ broadcast

SpecBroadcast == BroadcastInit /\ [][BroadcastNext]_vars

\* C22, as claimed: when the send of a broadcast event to a listener fails,
\* the broadcast removes that listener from the active connections, and every
\* other connected listener receives the event.
C22_FailedListenerDropped ==
    [][ ws_event' = ws_event + 1
        => \A w \in Listening :
              IF <<ws_event, w>> \in ws_received'
              THEN TRUE
              ELSE w \notin {active_connections'[i] : i \in DOMAIN active_connections'}
      ]_vars

-----------------------------------------------------------------------------
(* SpecEnrich: the enrichment worker of the SQLite backend
   (backend-sqlite/server.py lines 1163-1203), the MarineISA client it calls
   (backend-sqlite/marinesia_client.py) and the handler that queues a
   station.  The API key is configured, so that marinesia_client is set. *)

\* What the MarineISA API answers to a profile request: 200 with the
\* profile, 404, another status, or no answer (the request raises), and to
\* an image request: 200 with a URL, or anything else
ProfileAnswers == {"200", "404", "500", "timeout"}
ImageAnswers == {"200", "404"}

ProfileData == "profile"
NotFoundMarker == "not_found"

CacheKey(kind, mmsi) == <<kind, mmsi>>

\* MarineISAClient._set_cache
set_cache(cache, cache_key, data) ==
    [k \in (DOMAIN cache) \cup {cache_key} |-> IF k = cache_key THEN data ELSE cache[k]]

\* MarineISAClient.get_vessel_profile: the cached data if there is any; else
\* the request, whose 200 and 404 are cached; only a 200 returns data
get_vessel_profile(cache, mmsi, answer) ==
    LET cache_key == CacheKey("profile", mmsi)
    IN  IF cache_key \in DOMAIN cache
        THEN [data |-> Some(cache[cache_key]), cache |-> cache, requested |-> FALSE]
        ELSE CASE answer = "200" ->
                    [data |-> Some(ProfileData), requested |-> TRUE,
                     cache |-> set_cache(cache, cache_key, ProfileData)]
               [] answer = "404" ->
                    [data |-> None, requested |-> TRUE,
                     cache |-> set_cache(cache, cache_key, NotFoundMarker)]
               [] OTHER -> [data |-> None, cache |-> cache, requested |-> TRUE]

\* MarineISAClient.get_vessel_image
get_vessel_image(cache, mmsi, answer) ==
    LET cache_key == CacheKey("image", mmsi)
    IN  IF cache_key \in DOMAIN cache
        THEN [url |-> IF cache[cache_key] # NotFoundMarker
                      THEN Some(cache[cache_key]) ELSE None,
              cache |-> cache]
        ELSE IF answer = "200"
        THEN [url |-> Some("url"), cache |-> set_cache(cache, cache_key, "url")]
        ELSE [url |-> None, cache |-> set_cache(cache, cache_key, NotFoundMarker)]

\* MarineISAClient.enrich_vessel: enriched only with a profile that is not
\* the not-found marker; the image is asked for only then
enrich_vessel(cache, mmsi, profile_answer, image_answer) ==
    LET got == get_vessel_profile(cache, mmsi, profile_answer)
    IN  IF got.data # None /\ got.data # Some(NotFoundMarker)
        THEN LET img == get_vessel_image(got.cache, mmsi, image_answer)
             IN  [enriched |-> TRUE, profile |-> got.data, image_url |-> img.url,
                  cache |-> img.cache, requested |-> got.requested]
        ELSE [enriched |-> FALSE, profile |-> None, image_url |-> None,
              cache |-> got.cache, requested |-> got.requested]

\* What the worker notes of a lookup
LookupOutcome(result, profile_answer) ==
    IF result.enriched THEN "found"
    ELSE IF ~result.requested THEN "cached_not_found"
    ELSE IF profile_answer = "404" THEN "not_found"
    ELSE "transient"

already_enriched_Never(table, mmsi) == FALSE

\* lines 1172-1180: a row of vessel_enrichment exists for the station
already_enriched(table, mmsi) == mmsi \in DOMAIN table

\* The worker has finished with a station: the iteration of its loop ended
Noted(mmsi, did) ==
    [en_log EXCEPT !.last = [mmsi |-> mmsi, did |-> did],
                   !.seen = @ \cup {did},
                   !.handled = Append(@, mmsi)]

\* POST /vessel/{mmsi}/enrich-priority: the station's row is deleted and the
\* station is put on the queue
enrich_vessel_priority(mmsi) ==
    /\ Len(enrichment_queue) < MaxQueue
    /\ vessel_enrichment' = [m \in DOMAIN vessel_enrichment \ {mmsi} |->
                                vessel_enrichment[m]]
    /\ enrichment_queue' = Append(enrichment_queue, mmsi)
    /\ en_log' = [en_log EXCEPT !.enqueued = Append(@, mmsi)]
    /\ UNCHANGED <<client_cache, en_current>>
    /\ UNCHANGED <<db_vars, valid_vars, sqlite_vars, ws_vars, tasks>>

enrichment_worker_get_Lifo ==
    /\ en_current = None
    /\ enrichment_queue # <<>>
    /\ LET mmsi == enrichment_queue[Len(enrichment_queue)]
       IN  IF already_enriched(vessel_enrichment, mmsi)
           THEN /\ en_current' = None
                /\ en_log' = Noted(mmsi, "skipped")
           ELSE /\ en_current' = Some(mmsi)
                /\ en_log' = en_log
    /\ enrichment_queue' = SubSeq(enrichment_queue, 1, Len(enrichment_queue) - 1)
    /\ UNCHANGED <<vessel_enrichment, client_cache>>
    /\ UNCHANGED <<db_vars, valid_vars, sqlite_vars, ws_vars, tasks>>

\* enrichment_worker, from enrichment_queue.get() to the check of the table:
\* a station that has a row is skipped
enrichment_worker_get ==
    /\ en_current = None
    /\ enrichment_queue # <<>>
    /\ LET mmsi == Head(enrichment_queue)
       IN  IF already_enriched(vessel_enrichment, mmsi)
           THEN /\ en_current' = None
                /\ en_log' = Noted(mmsi, "skipped")
           ELSE /\ en_current' = Some(mmsi)
                /\ en_log' = en_log
    /\ enrichment_queue' = Tail(enrichment_queue)
    /\ UNCHANGED <<vessel_enrichment, client_cache>>
    /\ UNCHANGED <<db_vars, valid_vars, sqlite_vars, ws_vars, tasks>>

\* enrichment_worker, the lookup and what follows it: the row is written
\* only when enrich_vessel reports enriched
enrichment_worker_enrich(profile_answer, image_answer) ==
    /\ en_current # None
    /\ LET mmsi == en_current[1]
           enriched_data == enrich_vessel(client_cache, mmsi, profile_answer, image_answer)
       IN  /\ client_cache' = enriched_data.cache
           /\ vessel_enrichment' =
                 IF enriched_data.enriched
                 THEN [m \in (DOMAIN vessel_enrichment) \cup {mmsi} |->
                          IF m = mmsi
                          THEN [mmsi |-> mmsi, profile_data |-> enriched_data.profile,
                                image_url |-> enriched_data.image_url]
                          ELSE vessel_enrichment[m]]
                 ELSE vessel_enrichment
           /\ en_log' = Noted(mmsi, LookupOutcome(enriched_data, profile_answer))
    /\ en_current' = None
    /\ UNCHANGED enrichment_queue
    /\ UNCHANGED <<db_vars, valid_vars, sqlite_vars, ws_vars, tasks>>

\* The cache window of 24 hours passes for an entry: _is_cached deletes it
CacheExpires(cache_key) ==
    /\ cache_key \in DOMAIN client_cache
    /\ client_cache' = [k \in DOMAIN client_cache \ {cache_key} |-> client_cache[k]]
    /\ UNCHANGED <<enrichment_queue, vessel_enrichment, en_current, en_log>>
    /\ UNCHANGED <<db_vars, valid_vars, sqlite_vars, ws_vars, tasks>>

EnrichInit ==
    /\ EmptyDb /\ ValidatorIdle /\ SqliteEmpty
    /\ active_connections = <<>> /\ ws_broken = {} /\ ws_event = 1
    /\ ws_attempted = {} /\ ws_received = {}
    /\ tasks = <<>>
    /\ enrichment_queue = <<>>
    /\ vessel_enrichment = <<>>
    /\ client_cache = <<>>
    /\ en_current = None
    /\ en_log = [last |-> None, seen |-> {}, enqueued |-> <<>>, handled |-> <<>>]

EnrichNext ==
    \/ \E mmsi \in Stations :
          Len(en_log.enqueued) < MaxEnqueued /\ enrich_vessel_priority(mmsi)
    \/ enrichment_worker_get
    \/ \E profile_answer \in ProfileAnswers, image_answer \in ImageAnswers :
          enrichment_worker_enrich(profile_answer, image_answer)
    \/ \E mmsi \in Stations : CacheExpires(CacheKey("profile", mmsi))

SpecEnrich == EnrichInit /\ [][EnrichNext]_vars

\* The step is a lookup of the worker with this outcome
LookupStep(did) ==
    /\ en_current # None
    /\ en_current' = None
    /\ en_log'.last # None
    /\ en_log'.last.did = did

\* C23, as claimed: after the worker has handled a station whose profile
\* lookup returned not-found, a row holding the not-found sentinel is stored
\* for the station.
C23_NotFoundRecorded ==
    [][ LookupStep("not_found")
        => /\ en_current[1] \in DOMAIN vessel_enrichment'
           /\ vessel_enrichment'[en_current[1]].profile_data = Some(NotFoundMarker)
      ]_vars

\* C24: when the station the worker takes from the queue already has a row,
\* the worker starts no lookup and leaves the table and the client's cache
\* unchanged; when a lookup fails with a transient error, no row is written
\* and the station is not put back on the queue.
C24_SkipAndNoRetry ==
    [][ /\ (/\ enrichment_queue # <<>>
            /\ enrichment_queue' = Tail(enrichment_queue)
            /\ Head(enrichment_queue) \in DOMAIN vessel_enrichment)
           => /\ en_current' = None
              /\ vessel_enrichment' = vessel_enrichment
              /\ client_cache' = client_cache
        /\ LookupStep("transient")
           => /\ vessel_enrichment' = vessel_enrichment
              /\ enrichment_queue' = enrichment_queue
              /\ en_current[1] \notin DOMAIN vessel_enrichment'
      ]_vars

\* C24 witness: the worker has skipped a station that had a row, and a
\* lookup has failed with a transient error.
C24_Witness ==
    /\ {"skipped", "transient"} \subseteq en_log.seen
    /\ en_log.last # None
    /\ en_log.last.did = "transient"
    /\ en_current = None

-----------------------------------------------------------------------------
(* SpecPositions: position-bearing sentences, valid and invalid, read by one
   source of each backend *)

PosCorpus == {ValidReport, InvalidReport}

SqPosCorpus == {ValidReport, InvalidReport, InvalidBaseStation}

PositionsInit ==
    /\ RegisteredDb /\ ValidatorIdle /\ ExtIdle
    /\ SqRegistered
    /\ sq_decoder \in SqDecoders

PositionsNext ==
    \/ \E s \in PosCorpus : clock <= MaxClock /\ Deliver(1, s)
    \/ \E s \in SqPosCorpus : sq_Arrive(1, s, SqPosMaxInput)
    \/ tcp_stream_worker_check(1)
    \/ tcp_stream_worker_read(1)

SpecPositions == PositionsInit /\ [][PositionsNext]_vars

\* The sentence decodes to a message with coordinates of one of the
\* position-bearing types
PositionBearing(s) ==
    /\ s.decode = "ok"
    /\ s.msg_type \in PositionTypes
    /\ s.lat # None
    /\ s.lon # None

\* C25, as claimed: in both backends every successfully decoded
\* position-bearing message results in exactly one new stored Position,
\* whether or not its coordinates are valid.
C25_OnePositionPerReport ==
    [][ /\ (/\ clock' = clock + 1
            /\ last_op'.op = "deliver"
            /\ PositionBearing(last_op'.arg))
           => Cardinality(positions') = Cardinality(positions) + 1
        /\ (/\ sq_decoder = "mapping"
            /\ sq_last_op'.op = "worker_read"
            /\ sq_clock' = sq_clock + 1
            /\ PositionBearing(Head(sq_input[sq_last_op'.sid]).sentence))
           => Cardinality(sq_positions') = Cardinality(sq_positions) + 1
      ]_vars

-----------------------------------------------------------------------------
(* SpecUpload: POST /upload of the Mongo backend, from the empty database *)

\* A line of an uploaded file that starts with neither '!' nor '$'
CommentLine == [decode |-> "text"]

\* line 881: `if line and (line.startswith('!') or line.startswith('$'))`
IsAisLine(line) == line.decode # "text"

\* lines 852-855: the sources the duplicate check finds
ExistingUploads(srcs, filename) ==
    {sid \in DOMAIN srcs : /\ srcs[sid].source_type = "file"
                           /\ srcs[sid].config.filename = filename}

\* lines 866-874: source_doc of an uploaded file
FileSourceDoc(sid, filename, ts) ==
    [source_id |-> sid, source_type |-> "file", name |-> filename,
     config |-> [filename |-> filename], status |-> "active", created_at |-> ts,
     message_count |-> 0]

\* lines 879-887: the loop over the lines.  st carries the database d, the
\* time ts, the next ObjectId id, the count processed and the histories
RECURSIVE process_lines(_, _, _)
process_lines(st, lines, sid) ==
    IF lines = <<>> THEN st
    ELSE IF ~ IsAisLine(Head(lines)) THEN process_lines(st, Tail(lines), sid)
    ELSE
      LET s == Head(lines)
          stored == s.decode = "ok"
      IN  Then([d |-> process_ais_message(st.d, s, sid, st.ts, st.id),
                ts |-> st.ts + 1,
                id |-> IF stored THEN st.id + 2 ELSE st.id,
                processed |-> st.processed + 1,
                inserted |-> IF stored THEN st.inserted \cup {st.ts} ELSE st.inserted,
                reported |-> IF stored /\ s.msg_type \in PositionTypes
                             THEN st.reported \cup
                                    {[mmsi |-> s.mmsi, lat |-> s.lat, lon |-> s.lon,
                                      source_id |-> sid, timestamp |-> st.ts]}
                             ELSE st.reported],
               LAMBDA next : process_lines(next, Tail(lines), sid))

\* POST /upload.  The whole body stands in a try whose `except Exception`
\* answers 500 (lines 910-911): the HTTPException(409) that line 859 raises
\* for a duplicate filename is an Exception and leaves as that 500.
upload_file(filename, lines, max_sources) ==
    IF ExistingUploads(sources, filename) # {}
    THEN /\ last_op' = Op("upload_file", 0, filename, 500)
         /\ UNCHANGED <<sources, messages, positions, vessels, active_streams, clock,
                      next_id, next_source, inserted, reported, valid_vars, sqlite_vars, ext_vars>>
    ELSE /\ next_source <= max_sources
         /\ \E st \in {process_lines(
                          [d |-> [Database EXCEPT !.sources =
                                     [sid \in (DOMAIN sources) \cup {next_source} |->
                                         IF sid = next_source
                                         THEN FileSourceDoc(next_source, filename, clock)
                                         ELSE sources[sid]]],
                           ts |-> clock + 1, id |-> next_id, processed |-> 0,
                           inserted |-> {}, reported |-> reported],
                          lines, next_source)} :
               /\ sources' = [st.d.sources EXCEPT ![next_source] =
                                 SetFields(@, [message_count |-> st.processed,
                                               last_message |-> st.ts])]
               /\ messages' = st.d.messages
               /\ positions' = st.d.positions
               /\ vessels' = st.d.vessels
               /\ clock' = st.ts + 1
               /\ next_id' = st.id
               /\ inserted' = [sid \in (DOMAIN inserted) \cup {next_source} |->
                                  IF sid = next_source THEN st.inserted
                                  ELSE inserted[sid]]
               /\ reported' = st.reported
         /\ next_source' = next_source + 1
         /\ last_op' = Op("upload_file", next_source, filename, 200)
         /\ UNCHANGED <<active_streams, valid_vars, sqlite_vars, ext_vars>>

Filenames == {"a.log", "b.log", "c.log"}

UploadCorpus == {ValidReport, InvalidReport, CommentLine}

\* The files of at most n lines drawn from corpus
RECURSIVE FilesOf(_, _)
FilesOf(corpus, n) ==
    IF n = 0 THEN {<<>>}
    ELSE FilesOf(corpus, n - 1) \cup
         {Append(f, l) : f \in {g \in FilesOf(corpus, n - 1) : Len(g) = n - 1},
                         l \in corpus}

UploadNext ==
    \E filename \in Filenames, lines \in FilesOf(UploadCorpus, MaxLines) :
        upload_file(filename, lines, MaxSources)

SpecUpload == RegistryInit /\ [][UploadNext]_vars

\* The step is an upload of a filename that a file source already carries
DuplicateUpload ==
    /\ last_op'.op = "upload_file"
    /\ ExistingUploads(sources, last_op'.arg) # {}

\* C27, as claimed: a duplicate filename is rejected with 409; no new Source
\* is created and none of the file's sentences is processed.
C27_DuplicateUploadIs409 ==
    [][ DuplicateUpload => /\ last_op'.code = 409
                           /\ sources' = sources
                           /\ messages' = messages
                           /\ positions' = positions
                           /\ vessels' = vessels ]_vars

-----------------------------------------------------------------------------
(* SpecSqliteFile: POST /upload of the SQLite backend, the file's worker,
   and the handlers that stop, disable, delete and pause the source *)

UploadSuffixes == {".txt", ".log", ".ais"}

SqFilenames == {[stem |-> "a", suffix |-> ".log"], [stem |-> "a", suffix |-> ".csv"]}

\* The row upload_file inserts
sq_file_row(sid, filename, lines, ts) ==
    [source_id |-> sid, source_type |-> "file", name |-> filename,
     config |-> [file_path |-> <<sid, filename>>, file_size |-> Len(lines)],
     status |-> "active", created_at |-> ts, last_message |-> None,
     message_count |-> 0, target_count |-> 0, fragment_count |-> 0,
     message_limit |-> 0, target_limit |-> 0, keep_non_vessel_targets |-> TRUE,
     is_paused |-> FALSE, processing_complete |-> FALSE]

\* POST /upload: 400 for a filename of another suffix; else the file is
\* saved, the source row inserted, the adapter registered as running and
\* file_stream_worker scheduled.  sq_input holds the lines not yet read;
\* max_sources bounds the files a run uploads
sq_upload_file(filename, lines, max_sources) ==
    IF filename.suffix \notin UploadSuffixes
    THEN /\ sq_last_op' = Op("upload_file", 0, filename, 400)
         /\ UNCHANGED <<sq_sources, sq_messages, sq_positions, sq_vessels,
                        sq_streams, sq_input, sq_pc, sq_clock, sq_forwarded,
                        sq_attributed, sq_decoder, db_vars, valid_vars, ext_vars>>
    ELSE /\ Cardinality(DOMAIN sq_pc) < max_sources
         /\ LET sid == sq_clock
            IN  /\ sq_sources' = sid :> sq_file_row(sid, filename, lines, sq_clock)
                                   @@ sq_sources
                /\ sq_streams' = sid :> [running |-> TRUE, type |-> "file"] @@ sq_streams
                /\ sq_pc' = sid :> "line" @@ sq_pc
                /\ sq_input' = sid :> [i \in 1..Len(lines) |->
                                          [sentence |-> lines[i], at |-> sq_clock,
                                           while_paused |-> FALSE]] @@ sq_input
                /\ sq_last_op' = Op("upload_file", sid, filename, 200)
         /\ sq_clock' = sq_clock + 1
         /\ UNCHANGED <<sq_messages, sq_positions, sq_vessels, sq_forwarded,
                        sq_attributed, sq_decoder, db_vars, valid_vars, ext_vars>>

\* POST /stream/stop/{stream_id}
sq_stop_stream(sid) ==
    /\ IF sid \in DOMAIN sq_streams
       THEN /\ sq_streams' = [k \in DOMAIN sq_streams \ {sid} |-> sq_streams[k]]
            /\ sq_last_op' = Op("stop_stream", sid, None, 200)
       ELSE /\ sq_last_op' = Op("stop_stream", sid, None, 404)
            /\ UNCHANGED sq_streams
    /\ UNCHANGED <<sq_sources, sq_messages, sq_positions, sq_vessels, sq_input,
                   sq_pc, sq_clock, sq_forwarded, sq_attributed, sq_decoder,
                   db_vars, valid_vars, ext_vars>>

\* POST /sources/disable-all
disable_all_sources ==
    /\ sq_sources' = [k \in DOMAIN sq_sources |->
                         [sq_sources[k] EXCEPT !.status = "inactive"]]
    /\ sq_streams' = <<>>
    /\ sq_last_op' = Op("disable_all_sources", 0, None, 200)
    /\ UNCHANGED <<sq_messages, sq_positions, sq_vessels, sq_input, sq_pc,
                   sq_clock, sq_forwarded, sq_attributed, sq_decoder, db_vars,
                   valid_vars, ext_vars>>

\* file_stream_worker, one turn of `for line in f`: the loop is left when
\* the adapter is gone or stopped; the line is dropped after a sleep when
\* the source is paused; else it is handed to process_ais_message
file_stream_worker_line(sid) ==
    /\ sid \in DOMAIN sq_pc /\ sq_pc[sid] = "line"
    /\ sq_input[sid] # <<>>
    /\ IF ~(sid \in DOMAIN sq_streams /\ sq_streams[sid].running)
       THEN /\ sq_pc' = [sq_pc EXCEPT ![sid] = "complete"]
            /\ sq_last_op' = Op("worker_break", sid, None, 200)
            /\ UNCHANGED <<sq_sources, sq_messages, sq_positions, sq_vessels,
                           sq_input, sq_clock, sq_forwarded, sq_attributed>>
       ELSE IF sid \in DOMAIN sq_sources /\ sq_sources[sid].is_paused
       THEN /\ sq_input' = [sq_input EXCEPT ![sid] = Tail(@)]
            /\ sq_last_op' = Op("worker_sleep", sid, None, 200)
            /\ UNCHANGED <<sq_sources, sq_messages, sq_positions, sq_vessels,
                           sq_pc, sq_clock, sq_forwarded, sq_attributed>>
       ELSE LET item == Head(sq_input[sid])
                s == item.sentence
                d == sq_process_ais_message(
                         SqDatabase(sq_sources, sq_messages, sq_positions, sq_vessels),
                         s, sid, sq_clock, sq_decoder)
            IN  /\ sq_sources' = d.sources
                /\ sq_messages' = d.messages
                /\ sq_positions' = d.positions
                /\ sq_vessels' = d.vessels
                /\ sq_forwarded' = sq_forwarded \cup
                       {[source_id |-> sid, at |-> sq_clock,
                         while_paused |-> FALSE, paused_now |-> FALSE]}
                /\ sq_attributed' =
                       IF s.decode = "ok" /\ sq_decoder = "mapping"
                       THEN sq_attributed \cup
                              {[mmsi |-> s.mmsi, source_id |-> sid,
                                msg_type |-> s.msg_type, timestamp |-> sq_clock,
                                lat |-> s.lat, lon |-> s.lon]}
                       ELSE sq_attributed
                /\ sq_input' = [sq_input EXCEPT ![sid] = Tail(@)]
                /\ sq_clock' = sq_clock + 1
                /\ sq_last_op' = Op("worker_line", sid, None, 200)
                /\ UNCHANGED sq_pc
    /\ UNCHANGED <<sq_streams, sq_decoder, db_vars, valid_vars, ext_vars>>

\* file_stream_worker after the loop, whether the file ran out or the loop
\* was left by `break`: lines 1463-1468 set processing_complete on the
\* source's row, and the finally clause clears running
file_stream_worker_complete(sid) ==
    /\ sid \in DOMAIN sq_pc
    /\ \/ sq_pc[sid] = "complete"
       \/ sq_pc[sid] = "line" /\ sq_input[sid] = <<>>
    /\ sq_sources' = sq_update_source(sq_sources, sid,
                         LAMBDA r : [r EXCEPT !.processing_complete = TRUE])
    /\ sq_streams' = [k \in DOMAIN sq_streams |->
                         IF k = sid THEN [sq_streams[k] EXCEPT !.running = FALSE]
                         ELSE sq_streams[k]]
    /\ sq_pc' = [sq_pc EXCEPT ![sid] = "done"]
    /\ sq_last_op' = Op("worker_complete", sid, None, 200)
    /\ UNCHANGED <<sq_messages, sq_positions, sq_vessels, sq_input, sq_clock,
                   sq_forwarded, sq_attributed, sq_decoder, db_vars, valid_vars,
                   ext_vars>>

SqFileCorpus == {ValidReport, InvalidReport}

SqFileNext ==
    \/ \E filename \in SqFilenames, lines \in FilesOf(SqFileCorpus, MaxLines) :
          sq_upload_file(filename, lines, SqMaxSources)
    \/ \E sid \in DOMAIN sq_pc : sq_stop_stream(sid)
    \/ disable_all_sources
    \/ \E sid \in DOMAIN sq_pc, delete_data \in BOOLEAN : sq_delete_source(sid, delete_data)
    \/ \E sid \in DOMAIN sq_pc : sq_pause_source(sid)
    \/ \E sid \in DOMAIN sq_pc : sq_resume_source(sid)
    \/ \E sid \in DOMAIN sq_pc : file_stream_worker_line(sid)
    \/ \E sid \in DOMAIN sq_pc : file_stream_worker_complete(sid)

SpecSqliteFile == SqStreamInit /\ [][SqFileNext]_vars

\* C28, as claimed: processing_complete of a file source is true only after
\* every line of the file has been read; a worker that stopped early left
\* lines unread, and leaves the flag false.
C28_CompleteOnlyAfterLastLine ==
    \A sid \in DOMAIN sq_sources :
        (/\ sq_sources[sid].source_type = "file"
         /\ sq_sources[sid].processing_complete)
        => sq_input[sid] = <<>>

-----------------------------------------------------------------------------
(* SpecRace: executions of the Mongo process_ais_message for one source
   that interleave at the awaits of the purge.  The stream handlers schedule
   each sentence with run_coroutine_threadsafe and wait at most 2 s for it
   (lines 986-994), so a slow execution is still running when the next
   sentence is scheduled; each execution has its own locals. *)

\* LimitedDb after the adapter has read n position reports, one after the
\* other
RECURSIVE FilledDatabase(_)
FilledDatabase(n) ==
    IF n = 0
    THEN [sources |-> <<SetField(StreamSourceDoc(1, TcpSource, 1), "message_limit",
                                 MinMessageLimit)>>,
          messages |-> {}, positions |-> {}, vessels |-> <<>>]
    ELSE Then(FilledDatabase(n - 1),
              LAMBDA d : process_stream_message(d, ValidReport, 1, n, 2 * n - 1))

\* The source holds as many messages as its limit allows
FullDb ==
    /\ \E d \in {FilledDatabase(MinMessageLimit)} :
          /\ sources = d.sources
          /\ messages = d.messages
          /\ positions = d.positions
          /\ vessels = d.vessels
    /\ active_streams = <<"tcp">>
    /\ clock = MinMessageLimit + 1
    /\ next_id = 2 * MinMessageLimit + 1
    /\ next_source = 2
    /\ inserted = <<1..MinMessageLimit>>
    /\ reported = {[mmsi |-> ValidReport.mmsi, lat |-> ValidReport.lat,
                    lon |-> ValidReport.lon, source_id |-> 1, timestamp |-> t] :
                      t \in 1..MinMessageLimit}
    /\ last_op = Op("deliver", 1, ValidReport, 200)

Running(t) == t \in DOMAIN tasks

At(t, pc) == Running(t) /\ tasks[t].pc = pc

Goto(t, pc) == [tasks EXCEPT ![t].pc = pc]

\* An execution starts: lines 352-394, up to and with insert_one.  A
\* sentence of a paused source, a fragment and an undecodable sentence end
\* the execution there
task_insert(sid, s, max_tasks) ==
    /\ sid \in DOMAIN active_streams
    /\ Len(tasks) < max_tasks
    /\ IF IsProcessed(sources, sid, s)
       THEN /\ messages' = messages \cup {MessageDoc(s, sid, clock, next_id)}
            /\ tasks' = Append(tasks, [pc |-> "find_source", s |-> s, sid |-> sid,
                                       ts |-> clock, id |-> next_id,
                                       message_limit |-> 0, message_count |-> 0,
                                       old_messages |-> {}, deleted |-> 0])
            /\ next_id' = next_id + 2
            /\ inserted' = IF sid \in DOMAIN inserted
                           THEN [inserted EXCEPT ![sid] = @ \cup {clock}]
                           ELSE inserted
            /\ UNCHANGED sources
       ELSE /\ sources' = process_ais_message(Database, s, sid, clock, next_id).sources
            /\ UNCHANGED <<messages, tasks, next_id, inserted>>
    /\ clock' = clock + 1
    /\ last_op' = Op("task_insert", sid, s, 200)
    /\ UNCHANGED <<positions, vessels, active_streams, next_source, reported,
                   valid_vars, sqlite_vars, ws_vars, enrich_vars>>

\* Steps of an execution that change its locals only
task_local(t, name, after) ==
    /\ tasks' = after
    /\ last_op' = Op(name, t, None, 200)
    /\ UNCHANGED <<sources, messages, positions, vessels, active_streams, clock,
                   next_id, next_source, inserted, reported, valid_vars,
                   sqlite_vars, ws_vars, enrich_vars>>

\* lines 397-400: find_one of the source and its message_limit
task_find_source(t) ==
    /\ At(t, "find_source")
    /\ task_local(t, "task_find_source",
          IF tasks[t].sid \in DOMAIN sources
          THEN [tasks EXCEPT ![t].pc = "count",
                             ![t].message_limit =
                                 Get(sources[tasks[t].sid], "message_limit",
                                     DefaultMessageLimit)]
          ELSE Goto(t, "dispatch"))

\* lines 400-402: count_documents and the comparison with the limit
task_count(t) ==
    /\ At(t, "count")
    /\ LET message_count == Cardinality(MessagesOf(tasks[t].sid))
       IN  task_local(t, "task_count",
              [tasks EXCEPT ![t].message_count = message_count,
                            ![t].pc = IF message_count > tasks[t].message_limit
                                      THEN "find_oldest" ELSE "dispatch"])

\* lines 404-409: the oldest messages_to_delete messages of the source
task_find_oldest(t) ==
    /\ At(t, "find_oldest")
    /\ LET old_messages ==
               OldestMessages(MessagesOf(tasks[t].sid),
                              messages_to_delete(tasks[t].message_count,
                                                 tasks[t].message_limit))
       IN  task_local(t, "task_find_oldest",
              [tasks EXCEPT ![t].old_messages = old_messages,
                            ![t].pc = IF old_messages = {} THEN "dispatch"
                                      ELSE "delete_messages"])

\* lines 410-411: delete_many of the messages found; deleted keeps the
\* number of documents this removed
task_delete_messages(t) ==
    /\ At(t, "delete_messages")
    /\ LET message_ids == {m._id : m \in tasks[t].old_messages}
           gone == {m \in messages : m._id \in message_ids}
       IN  /\ messages' = messages \ gone
           /\ tasks' = [tasks EXCEPT ![t].deleted = Cardinality(gone),
                                     ![t].pc = "delete_positions"]
    /\ last_op' = Op("task_delete_messages", t, None, 200)
    /\ UNCHANGED <<sources, positions, vessels, active_streams, clock, next_id,
                   next_source, inserted, reported, valid_vars, sqlite_vars,
                   ws_vars, enrich_vars>>

\* lines 413-419: delete_many of the positions of the purged stations
task_delete_positions(t) ==
    /\ At(t, "delete_positions")
    /\ LET old_messages == tasks[t].old_messages
           position_ids == {m.mmsi : m \in old_messages}
           last_ts == CHOOSE ts \in {m.timestamp : m \in old_messages} :
                         \A m \in old_messages : m.timestamp <= ts
       IN  positions' = {p \in positions : ~ (/\ p.source_id = tasks[t].sid
                                               /\ p.mmsi \in position_ids
                                               /\ p.timestamp <= last_ts)}
    /\ tasks' = Goto(t, "dispatch")
    /\ last_op' = Op("task_delete_positions", t, None, 200)
    /\ UNCHANGED <<sources, messages, vessels, active_streams, clock, next_id,
                   next_source, inserted, reported, valid_vars, sqlite_vars,
                   ws_vars, enrich_vars>>

\* lines 424-845 and 959-967: the type's handler, the source's statistics
\* and the adapter's count; the execution is complete
task_dispatch(t) ==
    /\ At(t, "dispatch")
    /\ LET s == tasks[t].s
           sid == tasks[t].sid
           ts == tasks[t].ts
       IN  /\ \E d \in {Then(Dispatch(Database, s, sid, ts, tasks[t].id + 1),
                             LAMBDA handled :
                        Then(UpdateSourceStatistics(handled, sid, ts),
                             LAMBDA done :
                               IF sid \in DOMAIN done.sources
                               THEN [done EXCEPT !.sources[sid] =
                                       SetFields(@,
                                         [message_count |->
                                              Get(@, "message_count", 0) + 1,
                                          last_message |-> ts])]
                               ELSE done))} :
                  /\ sources' = d.sources
                  /\ messages' = d.messages
                  /\ positions' = d.positions
                  /\ vessels' = d.vessels
           /\ reported' = IF s.msg_type \in PositionTypes
                          THEN reported \cup
                                 {[mmsi |-> s.mmsi, lat |-> s.lat, lon |-> s.lon,
                                   source_id |-> sid, timestamp |-> ts]}
                          ELSE reported
    /\ tasks' = Goto(t, "done")
    /\ last_op' = Op("task_dispatch", t, None, 200)
    /\ UNCHANGED <<active_streams, clock, next_id, next_source, inserted,
                   valid_vars, sqlite_vars, ws_vars, enrich_vars>>

RaceCorpus == {ValidReport, InvalidReport, BinaryMessage}

RaceInit == FullDb /\ ValidatorIdle /\ SqliteEmpty /\ ExtIdle

RaceNext ==
    \/ \E s \in RaceCorpus : task_insert(1, s, MaxTasks)
    \/ \E t \in DOMAIN tasks : task_find_source(t)
    \/ \E t \in DOMAIN tasks : task_count(t)
    \/ \E t \in DOMAIN tasks : task_find_oldest(t)
    \/ \E t \in DOMAIN tasks : task_delete_messages(t)
    \/ \E t \in DOMAIN tasks : task_delete_positions(t)
    \/ \E t \in DOMAIN tasks : task_dispatch(t)

SpecRace == RaceInit /\ [][RaceNext]_vars

\* Every execution started has completed
AllComplete == \A t \in DOMAIN tasks : tasks[t].pc = "done"

\* C30, as claimed: when executions of process_ais_message for one source
\* interleave, no purge deletes more messages than the excess it computed,
\* and once all have completed the source holds at least
\* min(total inserted, message_limit) Messages.
C30_RaceKeepsLimit ==
    /\ \A t \in DOMAIN tasks :
          tasks[t].deleted <= IF tasks[t].message_count > tasks[t].message_limit
                              THEN messages_to_delete(tasks[t].message_count,
                                                      tasks[t].message_limit)
                              ELSE 0
    /\ AllComplete
       => Cardinality(MessagesOf(1))
            >= Min(Cardinality(inserted[1]), Get(sources[1], "message_limit",
                                                 DefaultMessageLimit))

-----------------------------------------------------------------------------
(* SpecStartRace: requests to the Mongo POST /stream/start whose handlers
   interleave at the await of the duplicate lookup (line 928) *)

\* lines 917-934: the duplicate lookup.  A duplicate answers 409 and the
\* request is over; else the request goes on to the insert
start_stream_lookup(config, max_requests) ==
    /\ Len(tasks) < max_requests
    /\ IF DuplicateSources(sources, config) # {}
       THEN /\ tasks' = Append(tasks, [pc |-> "done", config |-> config, code |-> 409,
                                       source_id |-> 0])
            /\ last_op' = Op("start_stream", 0, config, 409)
       ELSE /\ tasks' = Append(tasks, [pc |-> "insert", config |-> config, code |-> 0,
                                       source_id |-> 0])
            /\ last_op' = Op("start_stream_lookup", 0, config, 0)
    /\ UNCHANGED <<sources, messages, positions, vessels, active_streams, clock,
                   next_id, next_source, inserted, reported, valid_vars,
                   sqlite_vars, ws_vars, enrich_vars>>

\* lines 936-1075: the source record is inserted, the adapter is registered
\* in active_streams and its thread started
start_stream_insert(t) ==
    /\ At(t, "insert")
    /\ LET config == tasks[t].config
       IN  /\ sources' = [sid \in (DOMAIN sources) \cup {next_source} |->
                             IF sid = next_source
                             THEN StreamSourceDoc(next_source, config, clock)
                             ELSE sources[sid]]
           /\ active_streams' = [sid \in (DOMAIN active_streams) \cup {next_source} |->
                                    IF sid = next_source THEN config.stream_type
                                    ELSE active_streams[sid]]
           /\ inserted' = [sid \in (DOMAIN inserted) \cup {next_source} |->
                              IF sid = next_source THEN {} ELSE inserted[sid]]
           /\ last_op' = Op("start_stream", next_source, config, 200)
    /\ tasks' = [tasks EXCEPT ![t].pc = "done", ![t].code = 200,
                              ![t].source_id = next_source]
    /\ next_source' = next_source + 1
    /\ clock' = clock + 1
    /\ UNCHANGED <<messages, positions, vessels, next_id, reported, valid_vars,
                   sqlite_vars, ws_vars, enrich_vars>>

StartRaceNext ==
    \/ \E config \in StreamConfigs : start_stream_lookup(config, MaxRequests)
    \/ \E t \in DOMAIN tasks : start_stream_insert(t)

SpecStartRace == RegistryInit /\ [][StartRaceNext]_vars

\* C31, as claimed: when requests to register the same (transport, endpoint)
\* are handled concurrently, at most one Source record and at most one
\* adapter for the pair exist once the requests have completed.
C31_OneSourcePerEndpoint ==
    AllComplete
    => \A config \in StreamConfigs :
          /\ Cardinality(DuplicateSources(sources, config)) <= 1
          /\ Cardinality(DuplicateSources(sources, config)
                           \cap DOMAIN active_streams) <= 1

-----------------------------------------------------------------------------
(* SpecVesselRace: executions of the Mongo process_ais_message for position
   reports of one station, read by the adapters of two sources, that
   interleave at the awaits of the position handler (types 1-3, lines
   425-507) *)

\* lines 474-507: the $set of the vessel update, with last_position only
\* when the display coordinates are not null
position_update(s, ts, position_doc, pos_count) ==
    LET meta == [last_seen |-> ts, position_count |-> pos_count,
                 country |-> get_mmsi_country(s.mmsi)]
    IN  IF position_doc.display_lat # None /\ position_doc.display_lon # None
        THEN SetField(meta, "last_position", position_doc)
        ELSE meta

\* lines 352-422: the pause check, the decoder, the message and the purge.
\* A sentence that is not stored ends the execution there
report_begin(sid, s, max_tasks) ==
    /\ sid \in DOMAIN active_streams
    /\ Len(tasks) < max_tasks
    /\ IF IsProcessed(sources, sid, s)
       THEN /\ \E d \in {PurgeOldMessages(
                            [Database EXCEPT !.messages =
                                @ \cup {MessageDoc(s, sid, clock, next_id)}], sid)} :
                  /\ messages' = d.messages
                  /\ positions' = d.positions
            /\ tasks' = Append(tasks, [pc |-> "insert_position", s |-> s, sid |-> sid,
                                       ts |-> clock, id |-> next_id,
                                       position_doc |-> None, pos_count |-> 0])
            /\ next_id' = next_id + 2
            /\ inserted' = IF sid \in DOMAIN inserted
                           THEN [inserted EXCEPT ![sid] = @ \cup {clock}]
                           ELSE inserted
            /\ UNCHANGED sources
       ELSE /\ sources' = process_ais_message(Database, s, sid, clock, next_id).sources
            /\ UNCHANGED <<messages, positions, tasks, next_id, inserted>>
    /\ clock' = clock + 1
    /\ last_op' = Op("report_begin", sid, s, 200)
    /\ UNCHANGED <<vessels, active_streams, next_source, reported,
                   valid_vars, sqlite_vars, ws_vars, enrich_vars>>

\* lines 432-467: the display coordinates, insert_one of the position and,
\* for a valid one, the backfill
report_insert_position(t) ==
    /\ At(t, "insert_position")
    /\ LET s == tasks[t].s
           position_is_valid == is_valid_position(s.lat, s.lon)
           last_valid == get_last_valid_position(positions, s.mmsi)
           display_lat == IF position_is_valid THEN s.lat
                          ELSE IF last_valid # None THEN last_valid[1].lat ELSE None
           display_lon == IF position_is_valid THEN s.lon
                          ELSE IF last_valid # None THEN last_valid[1].lon ELSE None
           position_doc == PositionDoc(s, tasks[t].sid, tasks[t].ts, tasks[t].id + 1,
                                       position_is_valid, display_lat, display_lon)
           with_doc == positions \cup {position_doc}
       IN  /\ positions' = IF position_is_valid
                           THEN backfill_invalid_positions(with_doc, s.mmsi,
                                                           display_lat, display_lon)
                           ELSE with_doc
           /\ tasks' = [tasks EXCEPT ![t].pc = "count_positions",
                                     ![t].position_doc = Some(position_doc)]
           /\ reported' = reported \cup
                            {[mmsi |-> s.mmsi, lat |-> s.lat, lon |-> s.lon,
                              source_id |-> tasks[t].sid, timestamp |-> tasks[t].ts]}
    /\ last_op' = Op("report_insert_position", t, None, 200)
    /\ UNCHANGED <<sources, messages, vessels, active_streams, clock, next_id,
                   next_source, inserted, valid_vars, sqlite_vars, ws_vars,
                   enrich_vars>>

\* line 470: pos_count = count_documents({'mmsi': mmsi})
report_count_positions(t) ==
    /\ At(t, "count_positions")
    /\ tasks' = [tasks EXCEPT
                   ![t].pc = "update_vessel",
                   ![t].pos_count =
                       Cardinality({p \in positions : p.mmsi = tasks[t].s.mmsi})]
    /\ last_op' = Op("report_count_positions", t, None, 200)
    /\ UNCHANGED <<sources, messages, positions, vessels, active_streams, clock,
                   next_id, next_source, inserted, reported, valid_vars,
                   sqlite_vars, ws_vars, enrich_vars>>

\* lines 472-507 and 824-845, 959-967: the upsert of the vessel, the
\* source's statistics and the adapter's count; the execution is complete
report_update_vessel(t) ==
    /\ At(t, "update_vessel")
    /\ LET s == tasks[t].s
           sid == tasks[t].sid
           ts == tasks[t].ts
       IN  \E d \in {Then([Database EXCEPT !.vessels =
                              UpsertVessel(@, s.mmsi,
                                  position_update(s, ts, tasks[t].position_doc[1],
                                                  tasks[t].pos_count), sid)],
                          LAMBDA handled :
                     Then(UpdateSourceStatistics(handled, sid, ts),
                          LAMBDA done :
                            IF sid \in DOMAIN done.sources
                            THEN [done EXCEPT !.sources[sid] =
                                    SetFields(@,
                                      [message_count |-> Get(@, "message_count", 0) + 1,
                                       last_message |-> ts])]
                            ELSE done))} :
              /\ sources' = d.sources
              /\ vessels' = d.vessels
    /\ tasks' = Goto(t, "done")
    /\ last_op' = Op("report_update_vessel", t, None, 200)
    /\ UNCHANGED <<messages, positions, active_streams, clock, next_id,
                   next_source, inserted, reported, valid_vars, sqlite_vars,
                   ws_vars, enrich_vars>>

VesselRaceNext ==
    \/ \E sid \in DOMAIN active_streams, s \in {ValidReport, InvalidReport} :
          report_begin(sid, s, MaxTasks)
    \/ \E t \in DOMAIN tasks : report_insert_position(t)
    \/ \E t \in DOMAIN tasks : report_count_positions(t)
    \/ \E t \in DOMAIN tasks : report_update_vessel(t)

SpecVesselRace == Init /\ [][VesselRaceNext]_vars

\* The stored Positions of the station that have display coordinates
Displayable(mmsi) ==
    {p \in PositionsOf(mmsi) : p.display_lat # None /\ p.display_lon # None}

\* C32, as claimed: when the executions for position reports of one station
\* from two sources interleave, then after they complete the Vessel's
\* last_position is the stored Position with the greatest timestamp among
\* those with display coordinates, position_count is the number of stored
\* Positions of the station and source_ids holds every reporting source.
C32_VesselAfterRace ==
    AllComplete
    => \A mmsi \in DOMAIN vessels :
          /\ Displayable(mmsi) # {}
             => /\ "last_position" \in DOMAIN vessels[mmsi]
                /\ \A p \in Displayable(mmsi) :
                      p.timestamp <= vessels[mmsi].last_position.timestamp
          /\ Get(vessels[mmsi], "position_count", 0) = Cardinality(PositionsOf(mmsi))
          /\ {p.source_id : p \in PositionsOf(mmsi)}
                \subseteq Get(vessels[mmsi], "source_ids", {})

-----------------------------------------------------------------------------
(* SpecAdapters: the adapter threads of the Mongo backend.  tasks holds one
   entry per thread that start_stream (tcp_stream_handler,
   udp_stream_handler) or toggle_source (restart_tcp, restart_udp) has
   started: the source it serves, which function it runs, where it stands in
   `for msg in conn` and the sentence it holds. *)

AdapterThread(sid, kind) == [pc |-> "read", sid |-> sid, kind |-> kind, msg |-> None]

\* RegisteredDb with the two threads that start_stream started
AdaptersInit ==
    /\ RegisteredDb /\ ValidatorIdle /\ SqliteEmpty /\ ServicesIdle
    /\ tasks = <<AdapterThread(1, "start"), AdapterThread(2, "start")>>

\* The threads of the source that have not returned
LiveThreads(sid) == {t \in DOMAIN tasks : tasks[t].sid = sid /\ tasks[t].pc # "ended"}

\* `for msg in conn` yields the next sentence of the stream
adapter_read(t, s) ==
    /\ At(t, "read")
    /\ tasks' = [tasks EXCEPT ![t].pc = "check", ![t].msg = Some(s)]
    /\ last_op' = Op("adapter_read", t, s, 200)
    /\ UNCHANGED <<sources, messages, positions, vessels, active_streams, clock,
                   next_id, next_source, inserted, reported, valid_vars,
                   sqlite_vars, ws_vars, enrich_vars>>

\* lines 977-979: `if source_id not in active_streams: break`
adapter_check(t) ==
    /\ At(t, "check")
    /\ tasks' = Goto(t, IF tasks[t].sid \in DOMAIN active_streams
                        THEN "forward" ELSE "ended")
    /\ last_op' = Op("adapter_check", t, None, 200)
    /\ UNCHANGED <<sources, messages, positions, vessels, active_streams, clock,
                   next_id, next_source, inserted, reported, valid_vars,
                   sqlite_vars, ws_vars, enrich_vars>>

\* lines 980-994 and 1135-1140: the sentence is scheduled on the event loop,
\* through process_stream_message by the handlers of start_stream and
\* straight to process_ais_message by those of toggle_source
adapter_forward(t) ==
    /\ At(t, "forward")
    /\ LET sid == tasks[t].sid
           s == tasks[t].msg[1]
       IN  /\ \E d \in {IF tasks[t].kind = "restart"
                        THEN process_ais_message(Database, s, sid, clock, next_id)
                        ELSE process_stream_message(Database, s, sid, clock, next_id)} :
                  /\ sources' = d.sources
                  /\ messages' = d.messages
                  /\ positions' = d.positions
                  /\ vessels' = d.vessels
           /\ next_id' = IF IsProcessed(sources, sid, s) THEN next_id + 2 ELSE next_id
           /\ inserted' = IF IsProcessed(sources, sid, s) /\ sid \in DOMAIN inserted
                          THEN [inserted EXCEPT ![sid] = @ \cup {clock}]
                          ELSE inserted
           /\ reported' = IF IsProcessed(sources, sid, s) /\ s.msg_type \in PositionTypes
                          THEN reported \cup
                                 {[mmsi |-> s.mmsi, lat |-> s.lat, lon |-> s.lon,
                                   source_id |-> sid, timestamp |-> clock]}
                          ELSE reported
           /\ last_op' = Op("adapter_forward", sid, s, 200)
    /\ clock' = clock + 1
    /\ tasks' = [tasks EXCEPT ![t].pc = "read", ![t].msg = None]
    /\ UNCHANGED <<active_streams, next_source, valid_vars, sqlite_vars, ws_vars,
                   enrich_vars>>

\* lines 998-999: the connection fails; the exception is logged and the
\* thread returns
adapter_fails(t) ==
    /\ At(t, "read")
    /\ tasks' = Goto(t, "ended")
    /\ last_op' = Op("adapter_fails", t, None, 200)
    /\ UNCHANGED <<sources, messages, positions, vessels, active_streams, clock,
                   next_id, next_source, inserted, reported, valid_vars,
                   sqlite_vars, ws_vars, enrich_vars>>

\* POST /stream/stop/{stream_id}
stop_stream(sid) ==
    /\ IF sid \in DOMAIN active_streams
       THEN /\ active_streams' = WithoutStream(active_streams, sid)
            /\ last_op' = Op("stop_stream", sid, Some("stopped"), 200)
       ELSE /\ last_op' = Op("stop_stream", sid, Some("not_found"), 200)
            /\ UNCHANGED active_streams
    /\ UNCHANGED <<sources, messages, positions, vessels, clock, next_id,
                   next_source, inserted, reported, tasks, valid_vars,
                   sqlite_vars, ws_vars, enrich_vars>>

\* PATCH /sources/{source_id}/toggle with its threads: disabling removes the
\* source from active_streams, enabling a stream source registers it again
\* and starts a thread on restart_tcp, restart_udp or restart_serial
toggle_source_restart(sid, max_threads) ==
    /\ IF sid \notin DOMAIN sources
       THEN /\ last_op' = Op("toggle_source", sid, None, 404)
            /\ UNCHANGED <<sources, active_streams, tasks>>
       ELSE LET new_status == IF sources[sid].status = "active" THEN "inactive"
                              ELSE "active"
                restarts == new_status = "active"
                            /\ IsStreamType(sources[sid].source_type)
            IN  /\ restarts => Len(tasks) < max_threads
                /\ active_streams' =
                      IF new_status = "inactive" /\ sid \in DOMAIN active_streams
                      THEN WithoutStream(active_streams, sid)
                      ELSE IF restarts
                      THEN WithRestartedStream(active_streams, sid)
                      ELSE active_streams
                /\ tasks' = IF restarts THEN Append(tasks, AdapterThread(sid, "restart"))
                            ELSE tasks
                /\ sources' = [sources EXCEPT ![sid] = SetField(@, "status", new_status)]
                /\ last_op' = Op("toggle_source", sid, Some(new_status), 200)
    /\ UNCHANGED <<messages, positions, vessels, clock, next_id, next_source,
                   inserted, reported, valid_vars, sqlite_vars, ws_vars, enrich_vars>>

AdaptersNext ==
    \/ \E t \in DOMAIN tasks, s \in {ValidReport} :
          clock <= AdapterMaxClock /\ adapter_read(t, s)
    \/ \E t \in DOMAIN tasks : adapter_check(t)
    \/ \E t \in DOMAIN tasks : adapter_forward(t)
    \/ \E t \in DOMAIN tasks : adapter_fails(t)
    \/ \E sid \in DOMAIN sources : stop_stream(sid)
    \/ \E sid \in DOMAIN sources : toggle_source_restart(sid, MaxThreads)

SpecAdapters == AdaptersInit /\ [][AdaptersNext]_vars

\* C33, as claimed: at most one adapter thread forwards sentences for a
\* stream source: a thread whose check of active_streams lets it go on
\* forwarding has no younger thread of the same source beside it, however
\* quickly the source was toggled off and on.
C33_OneForwardingThread ==
    [][ \A t \in DOMAIN tasks :
           (tasks[t].pc = "check" /\ tasks'[t].pc = "forward")
           => \A u \in DOMAIN tasks :
                 (u > t /\ tasks[u].sid = tasks[t].sid) => tasks[u].pc = "ended"
      ]_vars

\* C35, as claimed (Mongo backend): active_streams lists a source only while
\* an adapter thread of the source is running.
C35_ListedOnlyWhileRunning ==
    \A sid \in DOMAIN active_streams : LiveThreads(sid) # {}

-----------------------------------------------------------------------------
(* SpecIdentity: static data and position-bearing sentences of one station,
   read by one source of each backend *)

IdentityCorpus == {StaticData, ValidReport, InvalidReport, InvalidAton}

SqIdentityCorpus == {StaticData, ValidReport}

IdentityNext ==
    \/ \E s \in IdentityCorpus : clock <= MaxClock /\ Deliver(1, s)
    \/ \E s \in SqIdentityCorpus : sq_Arrive(1, s, SqPosMaxInput)
    \/ tcp_stream_worker_check(1)
    \/ tcp_stream_worker_read(1)

SpecIdentity == PositionsInit /\ [][IdentityNext]_vars

\* The fields of a Vessel a position-bearing message with null display
\* coordinates may change
MetadataFields ==
    {"last_seen", "position_count", "country", "is_base_station", "is_aton",
     "source_ids"}

\* Field f is the same in records old and new, or absent from both
SameField(old, new, f) ==
    IF f \in DOMAIN old THEN f \in DOMAIN new /\ new[f] = old[f]
    ELSE f \notin DOMAIN new

\* C36, as claimed: in the Mongo backend a position-bearing message whose
\* resolved display coordinates are null leaves last_position of the Vessel
\* as it was, absent if it was absent, and changes no field of the Vessel
\* other than last_seen, position_count, country, the role flags and
\* source_ids.
C36_NullDisplayTouchesMetadataOnly ==
    [][ (/\ clock' = clock + 1
         /\ last_op'.op = "deliver"
         /\ IsProcessed(sources, last_op'.sid, last_op'.arg)
         /\ PositionBearing(last_op'.arg)
         /\ ~ is_valid_position(last_op'.arg.lat, last_op'.arg.lon)
         /\ get_last_valid_position(positions, last_op'.arg.mmsi) = None)
        => LET mmsi == last_op'.arg.mmsi
               old == IF mmsi \in DOMAIN vessels THEN vessels[mmsi]
                      ELSE [mmsi |-> mmsi]
               new == vessels'[mmsi]
           IN  \A f \in ((DOMAIN old) \cup (DOMAIN new)) \ MetadataFields :
                  SameField(old, new, f) ]_vars

\* The identity columns of the SQLite vessels table that the model carries,
\* and the identity fields of a Mongo Vessel
SqIdentityColumns == {"name", "callsign", "ship_type", "ship_type_text"}

IdentityFields ==
    {"name", "callsign", "imo", "ship_type", "ship_type_text", "dimension_a",
     "dimension_b", "dimension_c", "dimension_d", "destination", "eta"}

\* C40, as claimed: in both backends processing a position report (types
\* 1-3) of station S leaves the identity fields of S's Vessel unchanged.
C40_PositionReportKeepsIdentity ==
    [][ /\ (/\ clock' = clock + 1
            /\ last_op'.op = "deliver"
            /\ last_op'.arg.msg_type \in {1, 2, 3}
            /\ last_op'.arg.mmsi \in DOMAIN vessels)
           => \A f \in IdentityFields :
                 SameField(vessels[last_op'.arg.mmsi],
                           vessels'[last_op'.arg.mmsi], f)
        /\ (/\ sq_last_op'.op = "worker_read"
            /\ sq_clock' = sq_clock + 1
            /\ Head(sq_input[sq_last_op'.sid]).sentence.msg_type \in {1, 2, 3}
            /\ Head(sq_input[sq_last_op'.sid]).sentence.mmsi \in DOMAIN sq_vessels)
           => LET mmsi == Head(sq_input[sq_last_op'.sid]).sentence.mmsi
              IN  \A f \in SqIdentityColumns :
                     sq_vessels'[mmsi][f] = sq_vessels[mmsi][f]
      ]_vars

-----------------------------------------------------------------------------
(* SpecEnrichLive: the enrichment worker under fair scheduling, with the
   errors its except clause catches *)

\* enrichment_worker, lines 1167-1180 when the connection to the database or
\* the SELECT raises: the station is off the queue, the except clause logs
\* and the loop goes on
enrichment_worker_get_raises ==
    /\ en_current = None
    /\ enrichment_queue # <<>>
    /\ en_log' = Noted(Head(enrichment_queue), "error")
    /\ enrichment_queue' = Tail(enrichment_queue)
    /\ UNCHANGED <<vessel_enrichment, client_cache, en_current>>
    /\ UNCHANGED <<db_vars, valid_vars, sqlite_vars, ws_vars, tasks>>

\* enrichment_worker, lines 1183-1198 when the INSERT of an enriched station
\* raises: the client's cache holds the answer, no row is written
enrichment_worker_store_raises(profile_answer, image_answer) ==
    /\ en_current # None
    /\ LET mmsi == en_current[1]
           enriched_data == enrich_vessel(client_cache, mmsi, profile_answer, image_answer)
       IN  /\ enriched_data.enriched
           /\ client_cache' = enriched_data.cache
           /\ en_log' = Noted(mmsi, "error")
    /\ en_current' = None
    /\ UNCHANGED <<enrichment_queue, vessel_enrichment>>
    /\ UNCHANGED <<db_vars, valid_vars, sqlite_vars, ws_vars, tasks>>

\* One iteration of the worker's loop, whichever way it goes
enrichment_worker ==
    \/ enrichment_worker_get
    \/ enrichment_worker_get_raises
    \/ \E profile_answer \in ProfileAnswers, image_answer \in ImageAnswers :
          \/ enrichment_worker_enrich(profile_answer, image_answer)
          \/ enrichment_worker_store_raises(profile_answer, image_answer)

EnrichLiveNext ==
    \/ \E mmsi \in Stations :
          Len(en_log.enqueued) < MaxEnqueued /\ enrich_vessel_priority(mmsi)
    \/ enrichment_worker_get
    \/ enrichment_worker_get_raises
    \/ \E profile_answer \in ProfileAnswers, image_answer \in ImageAnswers :
          enrichment_worker_enrich(profile_answer, image_answer)
    \/ \E profile_answer \in ProfileAnswers, image_answer \in ImageAnswers :
          enrichment_worker_store_raises(profile_answer, image_answer)
    \/ \E mmsi \in Stations : CacheExpires(CacheKey("profile", mmsi))

\* The worker is a task of the event loop started at startup (line 1483);
\* every await of its loop returns or raises: the lookups have a timeout of
\* ten seconds (marinesia_client.py line 62)
SpecEnrichLive ==
    EnrichInit /\ [][EnrichLiveNext]_vars /\ WF_vars(enrichment_worker)

\* The stations the worker has finished with are, in order, the first
\* stations that were put on the queue
HandledInOrder ==
    /\ Len(en_log.handled) <= Len(en_log.enqueued)
    /\ \A i \in 1 .. Len(en_log.handled) : en_log.handled[i] = en_log.enqueued[i]

\* C37: the worker finishes with the stations one at a time in the order
\* they were put on the queue, also after an error raised while handling a
\* station; under fair scheduling the n-th station put on the queue is
\* eventually the n-th station the worker has finished with.
C37_EveryStationHandledInOrder ==
    /\ [] HandledInOrder
    /\ \A n \in 1 .. MaxEnqueued :
          (Len(en_log.enqueued) >= n)
             ~> (Len(en_log.handled) >= n /\ en_log.handled[n] = en_log.enqueued[n])

\* C37 witness: an error was caught while a station was handled, and the
\* worker has since finished with a station put on the queue after it.
C37_Witness ==
    /\ "error" \in en_log.seen
    /\ en_log.last # None
    /\ en_log.last.did # "error"
    /\ Len(en_log.handled) = Len(en_log.enqueued)
    /\ Len(en_log.handled) >= 2
    /\ en_log.handled[1] # en_log.handled[2]

-----------------------------------------------------------------------------
(* SpecAnchors: two active sources receive base-station reports, their own
   and others', and position reports around them; the spoof limit of a
   source is changed *)

\* PATCH /sources/{source_id}/spoof-limit
update_spoof_limit(sid, spoof_limit_km) ==
    /\ IF sid \notin DOMAIN sources
       THEN /\ last_op' = Op("update_spoof_limit", sid,
                             [spoof_limit_km |-> spoof_limit_km], 404)
            /\ UNCHANGED sources
       ELSE /\ sources' = [sources EXCEPT ![sid] =
                              SetField(@, "spoof_limit_km", spoof_limit_km)]
            /\ last_op' = Op("update_spoof_limit", sid,
                             [spoof_limit_km |-> spoof_limit_km], 200)
    /\ UNCHANGED <<messages, positions, vessels, active_streams, clock, next_id,
                   next_source, inserted, reported, valid_vars, sqlite_vars, ext_vars>>

ReceivedBaseStation == PositionSentence("VDM", Station2, 4, 2, 20, 0)
EquatorBaseStation == PositionSentence("VDO", Station2, 4, 0, 20, 0)
AnchorCorpus ==
    {OwnBaseStation, ReceivedBaseStation, EquatorBaseStation, RepeatedReport}

\* The spoof limit a client sets: above the distance of the two base
\* stations of AnchorCorpus, below the default
SpoofLimits == {200}

AnchorsNext ==
    \/ \E sid \in DOMAIN active_streams, s \in AnchorCorpus :
          clock <= AnchorMaxClock /\ Deliver(sid, s)
    \/ \E sid \in DOMAIN sources, spoof_limit_km \in SpoofLimits :
          update_spoof_limit(sid, spoof_limit_km)

SpecAnchors == Init /\ [][AnchorsNext]_vars

\* Two entries of vdo_data are of the same anchor
SameAnchor(e, f) ==
    /\ e.source_id = f.source_id
    /\ e.mmsi = f.mmsi
    /\ e.timestamp = f.timestamp
    /\ e.lat = f.lat
    /\ e.lon = f.lon

\* C38: an anchor of a source that get_active_vessels reports before and
\* after a step has the same radius_km in both answers whenever the step
\* leaves unchanged the source's spoof_limit_km and the source's Positions
\* that are not own-ship, have repeat_indicator <= 0 and have display
\* coordinates: Positions of other sources, own-ship reports and relayed
\* reports do not move the radius.
C38_RadiusDependsOnOwnDirectReports ==
    [][ \A e \in get_active_vessels.vdo_data, f \in get_active_vessels'.vdo_data :
           (/\ SameAnchor(e, f)
            /\ QualifyingCandidates(e.source_id)' = QualifyingCandidates(e.source_id)
            /\ f.spoof_limit_km = e.spoof_limit_km)
           => f.radius_km = e.radius_km
      ]_vars

\* C38 witness: an anchor of a source has a radius above 0, and a relayed
\* report of that source and a report of the other source were stored after
\* the anchor and after every Position the radius is taken over.
C38_Witness ==
    \E e \in get_active_vessels.vdo_data :
        /\ e.radius_km > 0
        /\ \E r \in positions, o \in positions :
              /\ r.source_id = e.source_id /\ r.repeat_indicator > 0
              /\ o.source_id # e.source_id /\ o.repeat_indicator <= 0
              /\ o.is_vdo # TRUE /\ o.display_lat # None
              /\ \A q \in QualifyingCandidates(e.source_id) \cup
                          {x \in positions : SameAnchor(
                              [source_id |-> x.source_id, mmsi |-> x.mmsi,
                               timestamp |-> x.timestamp, lat |-> x.display_lat,
                               lon |-> x.display_lon], e)} :
                    q.timestamp < r.timestamp /\ q.timestamp < o.timestamp

\* The step stores a Position p read from an own-ship (VDO) sentence or from
\* a base-station (type 4) sentence by an active source
StoresAnchorReport(p) ==
    /\ last_op'.op = "deliver"
    /\ last_op'.arg.msg_type \in PositionTypes
    /\ last_op'.arg.frame = "VDO" \/ last_op'.arg.msg_type = 4
    /\ sources'[last_op'.sid].status = "active"
    /\ p \in positions'
    /\ p._id \notin {q._id : q \in positions}

\* C39, as claimed: when an active source stores a Position of an own-ship
\* (VDO) report or of a base-station (type 4) report with display
\* coordinates, also at latitude 0 or longitude 0, the answer of
\* get_active_vessels holds one vdo_data entry of that Position, whose
\* is_own is true exactly for an own-ship report.
C39_AnchorListed ==
    [][ \A p \in positions' :
           (/\ StoresAnchorReport(p)
            /\ p.display_lat # None
            /\ p.display_lon # None)
           => LET entries == {e \in get_active_vessels'.vdo_data :
                                 /\ e.source_id = p.source_id
                                 /\ e.mmsi = p.mmsi
                                 /\ e.timestamp = p.timestamp}
              IN  /\ Cardinality(entries) = 1
                  /\ \A e \in entries : e.is_own = (last_op'.arg.frame = "VDO")
      ]_vars

====
